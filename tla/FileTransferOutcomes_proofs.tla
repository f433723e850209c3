---------------------- MODULE FileTransferOutcomes_proofs ----------------------
(***************************************************************************)
(* Proofs that the two ends of a file transfer never disagree on how it    *)
(* ended, and that the data of it reach their writer in the order it takes *)
(* them, for any clients, files, bounds, failures and lost connections.    *)
(*                                                                         *)
(* What the two ends believe is related by the messages under way between  *)
(* them, so the invariant says of every message what was true when it was  *)
(* sent and has remained so.  The operators below take the parts of the    *)
(* state as arguments: ph is phase, og outgoing, rt route, dr drawn, up    *)
(* upstream and in inbox.                                                  *)
(***************************************************************************)
EXTENDS FileTransfer_proofs

Token == {"offer", "accept", "reject"}

\* Queue q holds a token of transfer t: its offer, or the decision on it.
Tok(q, t) == \E i \in 1 .. Len(q) : q[i].type \in Token /\ q[i].id = t

\* At most one for each transfer.
Single(q) ==
  \A i, j \in 1 .. Len(q) :
    q[i].type \in Token /\ q[j].type \in Token /\ q[i].id = q[j].id => i = j

\* An offer and the decision on it are never under way at once, nor twice.
Alone(up, in) ==
  /\ \A c \in Conn : Single(up[c])
  /\ \A n \in Node : Single(in[n])
  /\ \A t \in Id :
       /\ \A c, d \in Conn : Tok(up[c], t) /\ Tok(up[d], t) => c = d
       /\ \A n, p \in Node : Tok(in[n], t) /\ Tok(in[p], t) => n = p
       /\ \A c \in Conn, n \in Node : ~(Tok(up[c], t) /\ Tok(in[n], t))

NoToken(up, in, t) ==
  (\A c \in Conn : ~Tok(up[c], t)) /\ (\A n \in Node : ~Tok(in[n], t))

\* What message m, under way to n, stands for.
Sound(ph, og, rt, dr, m, n) ==
  /\ m.type = "response" => m.target # n
  /\ m.type \notin {"request", "response"} =>
       LET t == m.id
           s == rt[t].source
           r == rt[t].target
       IN /\ t \in 1 .. dr
          /\ m.type \in {"offer", "begin", "chunk", "itemEnd", "finish"} => n = r
          /\ m.type \in {"accept", "reject", "completed"} => n = s
          /\ m.type = "failed" => n = r \/ (n = s /\ ph[r][t] = "failed")
          /\ m.type = "completed" => ph[r][t] = "completed"
          /\ m.type = "reject" => ph[r][t] = "rejected"
          /\ m.type = "finish" =>
               /\ ph[s][t] # "awaitingDecision" /\ og[s].id # t
               /\ ph[s][t] = "failed" => ph[r][t] = "failed"
          /\ m.type \in Token => ph[s][t] # "sending"
          /\ m.type = "offer" => ph[r][t] = "none"

Other(rt, n, t) == IF rt[t].source = n THEN rt[t].target ELSE rt[t].source

\* The same for a message a client has sent and the server has yet to route.
SoundUp(ph, og, rt, dr, m, c) ==
  /\ m.type # "response"
  /\ m.type # "request" =>
       /\ c \in {rt[m.id].source, rt[m.id].target}
       /\ Sound(ph, og, rt, dr, m, Other(rt, c, m.id))

Mail(ph, og, rt, dr, up, in) ==
  /\ \A c \in Conn : \A i \in 1 .. Len(up[c]) :
       SoundUp(ph, og, rt, dr, up[c][i], c)
  /\ \A n \in Node : \A i \in 1 .. Len(in[n]) :
       Sound(ph, og, rt, dr, in[n][i], n)

\* What the two ends of a transfer believe.
Beliefs(ph, og, rt, t) ==
  LET s == rt[t].source
      r == rt[t].target
  IN /\ s # r
     /\ ph[s][t] = "completed" => ph[r][t] = "completed"
     /\ ph[s][t] = "rejected" => ph[r][t] = "rejected"
     /\ ph[s][t] = "failed" => ph[r][t] # "completed"
     /\ ph[r][t] = "completed" =>
          ph[s][t] # "awaitingDecision" /\ og[s].id # t

\* Who may be in which phase.
Roles(ph, rt, dr) ==
  \A n \in Node, t \in Id :
    /\ t \notin 1 .. dr => ph[n][t] = "none"
    /\ ph[n][t] \in {"awaitingDecision", "sending"} => n = rt[t].source
    /\ ph[n][t] \in {"awaitingData", "receiving"} => n = rt[t].target

Ends(ph, og, rt, dr) ==
  Roles(ph, rt, dr) /\ \A t \in 1 .. dr : Beliefs(ph, og, rt, t)

-----------------------------------------------------------------------------
(* Tokens in one queue.                                                    *)

LEMMA TailTokens ==
  ASSUME NEW q \in Seq(Message), q # << >>, Single(q)
  PROVE  /\ Single(Tail(q))
         /\ \A t : Tok(Tail(q), t) => Tok(q, t)
         /\ Head(q).type \in Token => ~Tok(Tail(q), Head(q).id)
<1>1. /\ Len(q) \in Nat \ {0} /\ Len(Tail(q)) = Len(q) - 1
      /\ \A i \in 1 .. Len(Tail(q)) : Tail(q)[i] = q[i + 1]
      /\ Head(q) = q[1]
  OBVIOUS
<1>2. \A i \in 1 .. Len(Tail(q)) : i + 1 \in 1 .. Len(q) /\ i + 1 # 1
  BY <1>1
<1>3. 1 \in 1 .. Len(q)
  BY <1>1
<1>4. Single(Tail(q))
  <2> SUFFICES ASSUME NEW i \in 1 .. Len(Tail(q)), NEW j \in 1 .. Len(Tail(q)),
                      Tail(q)[i].type \in Token, Tail(q)[j].type \in Token,
                      Tail(q)[i].id = Tail(q)[j].id
               PROVE  i = j
    BY DEF Single
  <2>1. i + 1 = j + 1
    BY <1>1, <1>2 DEF Single
  <2> QED  BY <2>1, <1>1
<1>5. ASSUME NEW t, Tok(Tail(q), t) PROVE Tok(q, t)
  BY <1>1, <1>2, <1>5 DEF Tok
<1>6. ASSUME Head(q).type \in Token, Tok(Tail(q), Head(q).id) PROVE FALSE
  <2>1. PICK i \in 1 .. Len(Tail(q)) :
          Tail(q)[i].type \in Token /\ Tail(q)[i].id = Head(q).id
    BY <1>6 DEF Tok
  <2>2. i + 1 = 1
    BY <1>1, <1>2, <1>3, <1>6, <2>1 DEF Single
  <2> QED  BY <2>2, <1>2
<1> QED  BY <1>4, <1>5, <1>6

LEMMA PlainTokens ==
  ASSUME NEW q \in Seq(Message), Single(q), NEW ms \in Seq(Message),
         \A i \in 1 .. Len(ms) : ms[i].type \notin Token
  PROVE  /\ Single(q \o ms)
         /\ \A t : Tok(q \o ms, t) => Tok(q, t)
<1> DEFINE Q == q \o ms
<1>1. /\ Len(q) \in Nat /\ Len(ms) \in Nat /\ Len(Q) = Len(q) + Len(ms)
      /\ \A i \in 1 .. Len(q) : Q[i] = q[i]
      /\ \A i \in 1 .. Len(Q) : i > Len(q) => Q[i] = ms[i - Len(q)]
  OBVIOUS
<1> HIDE DEF Q
<1>2. \A i \in 1 .. Len(Q) :
        Q[i].type \in Token => i \in 1 .. Len(q) /\ Q[i] = q[i]
  <2> SUFFICES ASSUME NEW i \in 1 .. Len(Q), Q[i].type \in Token
               PROVE  i \in 1 .. Len(q) /\ Q[i] = q[i]
    OBVIOUS
  <2>1. CASE i > Len(q)
    <3>1. i - Len(q) \in 1 .. Len(ms)
      BY <1>1, <2>1
    <3> QED  BY <1>1, <2>1, <3>1
  <2>2. CASE ~(i > Len(q))
    BY <1>1, <2>2
  <2> QED  BY <2>1, <2>2
<1>3. Single(Q)
  BY <1>2 DEF Single
<1>4. ASSUME NEW t, Tok(Q, t) PROVE Tok(q, t)
  BY <1>2, <1>4 DEF Tok
<1> QED  BY <1>3, <1>4 DEF Q

LEMMA NewToken ==
  ASSUME NEW q \in Seq(Message), Single(q), NEW m \in Message,
         ~Tok(q, m.id)
  PROVE  /\ Single(q \o <<m>>)
         /\ \A t : Tok(q \o <<m>>, t) => Tok(q, t) \/ t = m.id
<1> DEFINE Q == q \o <<m>>
<1>1. /\ Len(q) \in Nat /\ Len(Q) = Len(q) + 1
      /\ \A i \in 1 .. Len(q) : Q[i] = q[i]
      /\ Q[Len(q) + 1] = m
  OBVIOUS
<1> HIDE DEF Q
<1>2. \A i \in 1 .. Len(Q) : i \in 1 .. Len(q) \/ i = Len(q) + 1
  BY <1>1
<1>3. Single(Q)
  BY <1>1, <1>2 DEF Single, Tok
<1>4. ASSUME NEW t, Tok(Q, t) PROVE Tok(q, t) \/ t = m.id
  BY <1>1, <1>2, <1>4 DEF Tok
<1> QED  BY <1>3, <1>4 DEF Q

-----------------------------------------------------------------------------
(* Taking messages from the queues and putting messages into them.         *)

LEMMA TailElements ==
  ASSUME NEW q \in Seq(Message), q # << >>
  PROVE  /\ 1 \in 1 .. Len(q) /\ Head(q) = q[1] /\ Tail(q) \in Seq(Message)
         /\ \A i \in 1 .. Len(Tail(q)) :
              i + 1 \in 1 .. Len(q) /\ Tail(q)[i] = q[i + 1]
OBVIOUS

LEMMA JoinElements ==
  ASSUME NEW q \in Seq(Message), NEW ms \in Seq(Message),
         NEW i \in 1 .. Len(q \o ms)
  PROVE  \/ i \in 1 .. Len(q) /\ (q \o ms)[i] = q[i]
         \/ \E j \in 1 .. Len(ms) : (q \o ms)[i] = ms[j]
<1>1. CASE i <= Len(q)
  BY <1>1
<1>2. CASE i > Len(q)
  <2>1. i - Len(q) \in 1 .. Len(ms)
    BY <1>2
  <2>2. (q \o ms)[i] = ms[i - Len(q)]
    BY <1>2
  <2> QED  BY <2>1, <2>2
<1> QED  BY <1>1, <1>2

\* Tokens that were alone are when no queue gains one.
LEMMA AloneShrinks ==
  ASSUME NEW up, NEW in, NEW up2, NEW in2, Alone(up, in),
         \A c \in Conn : /\ Single(up2[c])
                         /\ \A t : Tok(up2[c], t) => Tok(up[c], t),
         \A n \in Node : /\ Single(in2[n])
                         /\ \A t : Tok(in2[n], t) => Tok(in[n], t)
  PROVE  /\ Alone(up2, in2)
         /\ \A t : NoToken(up, in, t) => NoToken(up2, in2, t)
BY DEF Alone, NoToken

LEMMA TakeIn ==
  ASSUME NEW up \in [Conn -> Seq(Message)], NEW in \in [Node -> Seq(Message)],
         NEW ph, NEW og, NEW rt, NEW dr, Mail(ph, og, rt, dr, up, in),
         Alone(up, in), NEW n \in Node, in[n] # << >>,
         NEW in2, in2 = [in EXCEPT ![n] = Tail(@)]
  PROVE  /\ Mail(ph, og, rt, dr, up, in2) /\ Alone(up, in2)
         /\ Sound(ph, og, rt, dr, Head(in[n]), n)
         /\ Head(in[n]).type \in Token => NoToken(up, in2, Head(in[n]).id)
         /\ in2 \in [Node -> Seq(Message)]
<1>1. in[n] \in Seq(Message) /\ Single(in[n])
  BY DEF Alone
<1>2. in2[n] = Tail(in[n]) /\ \A p \in Node : p # n => in2[p] = in[p]
  OBVIOUS
<1>3. \A p \in Node : Single(in2[p]) /\ \A t : Tok(in2[p], t) => Tok(in[p], t)
  BY <1>1, <1>2, TailTokens DEF Alone
<1>4. Alone(up, in2)
  BY <1>3, AloneShrinks DEF Alone
<1>5. Sound(ph, og, rt, dr, Head(in[n]), n)
  BY <1>1, TailElements DEF Mail
<1>6. ASSUME NEW p \in Node, NEW i \in 1 .. Len(in2[p])
      PROVE  Sound(ph, og, rt, dr, in2[p][i], p)
  BY <1>1, <1>2, TailElements DEF Mail
<1>7. Mail(ph, og, rt, dr, up, in2)
  BY <1>6 DEF Mail
<1>8. ASSUME Head(in[n]).type \in Token
      PROVE  NoToken(up, in2, Head(in[n]).id)
  <2>1. Head(in[n]) \in Message /\ Head(in[n]).id \in Id
    <3>1. Head(in[n]) \in Message
      BY <1>1
    <3> QED  BY <1>8, <3>1, MessageFields DEF Token
  <2>2. Tok(in[n], Head(in[n]).id)
    BY <1>1, <1>8, TailElements DEF Tok
  <2>3. ~Tok(in2[n], Head(in[n]).id)
    BY <1>1, <1>2, <1>8, TailTokens
  <2> QED  BY <1>2, <2>1, <2>2, <2>3 DEF NoToken, Alone
<1>9. in2 \in [Node -> Seq(Message)]
  BY <1>1, TailElements
<1> QED  BY <1>4, <1>5, <1>7, <1>8, <1>9

LEMMA TakeUp ==
  ASSUME NEW up \in [Conn -> Seq(Message)], NEW in \in [Node -> Seq(Message)],
         NEW ph, NEW og, NEW rt, NEW dr, Mail(ph, og, rt, dr, up, in),
         Alone(up, in), NEW c \in Conn, up[c] # << >>,
         NEW up2, up2 = [up EXCEPT ![c] = Tail(@)]
  PROVE  /\ Mail(ph, og, rt, dr, up2, in) /\ Alone(up2, in)
         /\ SoundUp(ph, og, rt, dr, Head(up[c]), c)
         /\ Head(up[c]).type \in Token => NoToken(up2, in, Head(up[c]).id)
         /\ up2 \in [Conn -> Seq(Message)]
<1>1. up[c] \in Seq(Message) /\ Single(up[c])
  BY DEF Alone
<1>2. up2[c] = Tail(up[c]) /\ \A d \in Conn : d # c => up2[d] = up[d]
  OBVIOUS
<1>3. \A d \in Conn : Single(up2[d]) /\ \A t : Tok(up2[d], t) => Tok(up[d], t)
  BY <1>1, <1>2, TailTokens DEF Alone
<1>4. Alone(up2, in)
  BY <1>3, AloneShrinks DEF Alone
<1>5. SoundUp(ph, og, rt, dr, Head(up[c]), c)
  BY <1>1, TailElements DEF Mail
<1>6. ASSUME NEW d \in Conn, NEW i \in 1 .. Len(up2[d])
      PROVE  SoundUp(ph, og, rt, dr, up2[d][i], d)
  BY <1>1, <1>2, TailElements DEF Mail
<1>7. Mail(ph, og, rt, dr, up2, in)
  BY <1>6 DEF Mail
<1>8. ASSUME Head(up[c]).type \in Token
      PROVE  NoToken(up2, in, Head(up[c]).id)
  <2>1. Head(up[c]) \in Message /\ Head(up[c]).id \in Id
    <3>1. Head(up[c]) \in Message
      BY <1>1
    <3> QED  BY <1>8, <3>1, MessageFields DEF Token
  <2>2. Tok(up[c], Head(up[c]).id)
    BY <1>1, <1>8, TailElements DEF Tok
  <2>3. ~Tok(up2[c], Head(up[c]).id)
    BY <1>1, <1>2, <1>8, TailTokens
  <2> QED  BY <1>2, <2>1, <2>2, <2>3 DEF NoToken, Alone
<1>9. up2 \in [Conn -> Seq(Message)]
  BY <1>1, TailElements
<1> QED  BY <1>4, <1>5, <1>7, <1>8, <1>9

\* What may be put into a queue: no token, or one that is alone.
Mailable(up, in, ms) ==
  \/ \A i \in 1 .. Len(ms) : ms[i].type \notin Token
  \/ \E m \in Message : ms = <<m>> /\ NoToken(up, in, m.id)

LEMMA PutIn ==
  ASSUME NEW up \in [Conn -> Seq(Message)], NEW in \in [Node -> Seq(Message)],
         NEW ph, NEW og, NEW rt, NEW dr, Mail(ph, og, rt, dr, up, in),
         Alone(up, in), NEW n \in Node, NEW ms \in Seq(Message),
         \A i \in 1 .. Len(ms) : Sound(ph, og, rt, dr, ms[i], n),
         Mailable(up, in, ms),
         NEW in2, in2 = [in EXCEPT ![n] = @ \o ms]
  PROVE  Mail(ph, og, rt, dr, up, in2) /\ Alone(up, in2)
<1>1. in[n] \in Seq(Message) /\ Single(in[n])
  BY DEF Alone
<1>2. in2[n] = in[n] \o ms /\ \A p \in Node : p # n => in2[p] = in[p]
  OBVIOUS
<1>3. ASSUME NEW p \in Node, NEW i \in 1 .. Len(in2[p])
      PROVE  Sound(ph, og, rt, dr, in2[p][i], p)
  <2>1. CASE p # n
    BY <1>2, <2>1 DEF Mail
  <2>2. CASE p = n
    BY <1>1, <1>2, <2>2, JoinElements DEF Mail
  <2> QED  BY <2>1, <2>2
<1>4. Mail(ph, og, rt, dr, up, in2)
  BY <1>3 DEF Mail
<1>5. CASE \A i \in 1 .. Len(ms) : ms[i].type \notin Token
  <2>1. \A p \in Node : Single(in2[p]) /\ \A t : Tok(in2[p], t) => Tok(in[p], t)
    BY <1>1, <1>2, <1>5, PlainTokens DEF Alone
  <2>2. Alone(up, in2)
    BY <2>1, AloneShrinks DEF Alone
  <2> QED  BY <1>4, <2>2
<1>6. ASSUME NEW m \in Message, ms = <<m>>, NoToken(up, in, m.id)
      PROVE  Alone(up, in2)
  <2>1. /\ Single(in2[n])
        /\ \A t : Tok(in2[n], t) => Tok(in[n], t) \/ t = m.id
    BY <1>1, <1>2, <1>6, NewToken DEF NoToken
  <2>2. /\ \A p \in Node : Single(in2[p])
        /\ \A p \in Node : p # n => in2[p] = in[p]
    BY <1>2, <2>1 DEF Alone
  <2>3. ASSUME NEW t \in Id
        PROVE  /\ \A p, q \in Node : Tok(in2[p], t) /\ Tok(in2[q], t) => p = q
               /\ \A c \in Conn, p \in Node : ~(Tok(up[c], t) /\ Tok(in2[p], t))
    <3>1. CASE t = m.id
      <4>1. \A p \in Node : Tok(in2[p], t) => p = n
        BY ONLY <2>2, <3>1, <1>6 DEF NoToken
      <4> QED  BY ONLY <4>1, <3>1, <1>6 DEF NoToken
    <3>2. CASE t # m.id
      <4>1. \A p \in Node : Tok(in2[p], t) => Tok(in[p], t)
        BY <2>1, <2>2, <3>2
      <4> QED  BY ONLY <4>1, Alone(up, in), t \in Id DEF Alone
    <3> QED  BY ONLY <3>1, <3>2
  <2> QED  BY ONLY <2>2, <2>3, Alone(up, in) DEF Alone
<1> QED  BY <1>4, <1>5, <1>6 DEF Mailable

LEMMA PutUp ==
  ASSUME NEW up \in [Conn -> Seq(Message)], NEW in \in [Node -> Seq(Message)],
         NEW ph, NEW og, NEW rt, NEW dr, Mail(ph, og, rt, dr, up, in),
         Alone(up, in), NEW c \in Conn, NEW ms \in Seq(Message),
         \A i \in 1 .. Len(ms) : SoundUp(ph, og, rt, dr, ms[i], c),
         Mailable(up, in, ms),
         NEW up2, up2 = [up EXCEPT ![c] = @ \o ms]
  PROVE  Mail(ph, og, rt, dr, up2, in) /\ Alone(up2, in)
<1>1. up[c] \in Seq(Message) /\ Single(up[c])
  BY DEF Alone
<1>2. up2[c] = up[c] \o ms /\ \A d \in Conn : d # c => up2[d] = up[d]
  OBVIOUS
<1>3. ASSUME NEW d \in Conn, NEW i \in 1 .. Len(up2[d])
      PROVE  SoundUp(ph, og, rt, dr, up2[d][i], d)
  <2>1. CASE d # c
    BY <1>2, <2>1 DEF Mail
  <2>2. CASE d = c
    BY <1>1, <1>2, <2>2, JoinElements DEF Mail
  <2> QED  BY <2>1, <2>2
<1>4. Mail(ph, og, rt, dr, up2, in)
  BY <1>3 DEF Mail
<1>5. CASE \A i \in 1 .. Len(ms) : ms[i].type \notin Token
  <2>1. \A d \in Conn : Single(up2[d]) /\ \A t : Tok(up2[d], t) => Tok(up[d], t)
    BY <1>1, <1>2, <1>5, PlainTokens DEF Alone
  <2>2. Alone(up2, in)
    BY <2>1, AloneShrinks DEF Alone
  <2> QED  BY <1>4, <2>2
<1>6. ASSUME NEW m \in Message, ms = <<m>>, NoToken(up, in, m.id)
      PROVE  Alone(up2, in)
  <2>1. /\ Single(up2[c])
        /\ \A t : Tok(up2[c], t) => Tok(up[c], t) \/ t = m.id
    BY <1>1, <1>2, <1>6, NewToken DEF NoToken
  <2>2. /\ \A d \in Conn : Single(up2[d])
        /\ \A d \in Conn : d # c => up2[d] = up[d]
    BY <1>2, <2>1 DEF Alone
  <2>3. ASSUME NEW t \in Id
        PROVE  /\ \A d, e \in Conn : Tok(up2[d], t) /\ Tok(up2[e], t) => d = e
               /\ \A d \in Conn, p \in Node : ~(Tok(up2[d], t) /\ Tok(in[p], t))
    <3>1. CASE t = m.id
      <4>1. \A d \in Conn : Tok(up2[d], t) => d = c
        BY ONLY <2>2, <3>1, <1>6 DEF NoToken
      <4> QED  BY ONLY <4>1, <3>1, <1>6 DEF NoToken
    <3>2. CASE t # m.id
      <4>1. \A d \in Conn : Tok(up2[d], t) => Tok(up[d], t)
        BY <2>1, <2>2, <3>2
      <4> QED  BY ONLY <4>1, Alone(up, in), t \in Id DEF Alone
    <3> QED  BY ONLY <3>1, <3>2
  <2> QED  BY ONLY <2>2, <2>3, Alone(up, in) DEF Alone
<1> QED  BY <1>4, <1>5, <1>6 DEF Mailable

\* A computer sends to the other end of a transfer.
LEMMA PostKeepsMail ==
  ASSUME NetType, NEW in \in [Node -> Seq(Message)],
         NEW ph, NEW og, NEW rt, NEW dr, Mail(ph, og, rt, dr, upstream, in),
         Alone(upstream, in), NEW n \in Node, NEW to \in Node,
         NEW ms \in Seq(Message),
         \A i \in 1 .. Len(ms) :
           /\ ms[i].type \notin {"request", "response"}
           /\ n \in {rt[ms[i].id].source, rt[ms[i].id].target}
           /\ Other(rt, n, ms[i].id) = to
           /\ Sound(ph, og, rt, dr, ms[i], to),
         Mailable(upstream, in, ms), Posts(n, to, ms, in)
  PROVE  Mail(ph, og, rt, dr, upstream', inbox') /\ Alone(upstream', inbox')
<1>1. CASE n # Primary
  <2>1. n \in Conn
    BY <1>1 DEF Node
  <2>2. upstream' = [upstream EXCEPT ![n] = @ \o ms] /\ inbox' = in
    BY <1>1 DEF Posts
  <2>3. \A i \in 1 .. Len(ms) : SoundUp(ph, og, rt, dr, ms[i], n)
    BY DEF SoundUp
  <2> QED  BY <2>1, <2>2, <2>3, PutUp DEF NetType
<1>2. CASE n = Primary
  <2>1. \/ inbox' = [in EXCEPT ![to] = @ \o ms] /\ upstream' = upstream
        \/ inbox' = in /\ upstream' = upstream
    BY <1>2 DEF Posts
  <2>2. CASE inbox' = in /\ upstream' = upstream
    BY <2>2
  <2>3. CASE inbox' = [in EXCEPT ![to] = @ \o ms] /\ upstream' = upstream
    <3>1. \A i \in 1 .. Len(ms) : Sound(ph, og, rt, dr, ms[i], to)
      OBVIOUS
    <3>2. upstream \in [Conn -> Seq(Message)]
      BY DEF NetType
    <3>3. Mail(ph, og, rt, dr, upstream, inbox') /\ Alone(upstream, inbox')
      BY ONLY <2>3, <3>1, <3>2, PutIn, in \in [Node -> Seq(Message)],
         Mail(ph, og, rt, dr, upstream, in), Alone(upstream, in), to \in Node,
         ms \in Seq(Message), Mailable(upstream, in, ms)
    <3> QED  BY <2>3, <3>3
  <2> QED  BY <2>1, <2>2, <2>3
<1> QED  BY <1>1, <1>2

-----------------------------------------------------------------------------
(* What a step may do to the sessions.                                     *)

SessionsOf(ph, og, rt, dr) ==
  /\ ph \in [Node -> [Id -> Phase]]
  /\ og \in [Node -> Reader \union {NoReader}]
  /\ rt \in [Id -> Route] /\ dr \in 0 .. MaxTransfers

\* What a message stood for it still stands for.
Evolves(ph, og, rt, up, in, ph2, og2, t) ==
  LET s == rt[t].source
      r == rt[t].target
  IN /\ ph[r][t] \in {"rejected", "completed", "failed"} =>
          ph2[r][t] = ph[r][t]
     /\ (ph[s][t] # "awaitingDecision" /\ og[s].id # t) =>
          /\ ph2[s][t] # "awaitingDecision" /\ og2[s].id # t
          /\ ph2[s][t] = "failed" => ph[s][t] = "failed" \/ ph2[r][t] = "failed"
     /\ \/ NoToken(up, in, t)
        \/ /\ ph2[s][t] = "sending" => ph[s][t] = "sending"
           /\ ph[r][t] = "none" => ph2[r][t] = "none"

LEMMA SoundEvolves ==
  ASSUME NEW ph, NEW og, NEW rt, NEW dr, NEW up, NEW in, NEW ph2, NEW og2,
         \A t \in 1 .. dr : Evolves(ph, og, rt, up, in, ph2, og2, t),
         NEW m, NEW n, Sound(ph, og, rt, dr, m, n),
         m.type \in Token => ~NoToken(up, in, m.id)
  PROVE  Sound(ph2, og2, rt, dr, m, n)
<1>1. CASE m.type \in {"request", "response"}
  BY <1>1 DEF Sound
<1>2. CASE m.type \notin {"request", "response"}
  <2>1. m.id \in 1 .. dr
    BY <1>2 DEF Sound
  <2>2. Evolves(ph, og, rt, up, in, ph2, og2, m.id)
    BY <2>1
  <2> QED  BY <1>2, <2>1, <2>2 DEF Sound, Evolves, Token
<1> QED  BY <1>1, <1>2

LEMMA MailEvolves ==
  ASSUME NEW ph, NEW og, NEW rt, NEW dr, NEW ph2, NEW og2,
         NEW up \in [Conn -> Seq(Message)], NEW in \in [Node -> Seq(Message)],
         Mail(ph, og, rt, dr, up, in),
         \A t \in 1 .. dr : Evolves(ph, og, rt, up, in, ph2, og2, t)
  PROVE  Mail(ph2, og2, rt, dr, up, in)
<1>0. ASSUME NEW m, NEW n, Sound(ph, og, rt, dr, m, n),
             m.type \in Token => ~NoToken(up, in, m.id)
      PROVE  Sound(ph2, og2, rt, dr, m, n)
  BY <1>0, SoundEvolves
<1>1. ASSUME NEW m, NEW c, SoundUp(ph, og, rt, dr, m, c),
             m.type \in Token => ~NoToken(up, in, m.id)
      PROVE  SoundUp(ph2, og2, rt, dr, m, c)
  <2>1. CASE m.type = "request"
    BY <1>1, <2>1 DEF SoundUp
  <2>2. CASE m.type # "request"
    <3>1. Sound(ph, og, rt, dr, m, Other(rt, c, m.id))
      BY <1>1, <2>2 DEF SoundUp
    <3>2. Sound(ph2, og2, rt, dr, m, Other(rt, c, m.id))
      BY <1>0, <1>1, <3>1
    <3> QED  BY <1>1, <2>2, <3>2 DEF SoundUp
  <2> QED  BY <2>1, <2>2
<1>2. ASSUME NEW n \in Node, NEW i \in 1 .. Len(in[n])
      PROVE  Sound(ph2, og2, rt, dr, in[n][i], n)
  <2>1. Sound(ph, og, rt, dr, in[n][i], n)
    BY DEF Mail
  <2>2. in[n][i].type \in Token => ~NoToken(up, in, in[n][i].id)
    BY DEF NoToken, Tok
  <2> QED  BY <1>0, <2>1, <2>2
<1>3. ASSUME NEW c \in Conn, NEW i \in 1 .. Len(up[c])
      PROVE  SoundUp(ph2, og2, rt, dr, up[c][i], c)
  <2>1. SoundUp(ph, og, rt, dr, up[c][i], c)
    BY DEF Mail
  <2>2. up[c][i].type \in Token => ~NoToken(up, in, up[c][i].id)
    BY DEF NoToken, Tok
  <2> QED  BY <1>1, <2>1, <2>2
<1> QED  BY <1>2, <1>3 DEF Mail

\* Only computer n's session for t and its reader change.
OnlyAt(ph, og, ph2, og2, n, t, x) ==
  /\ ph2 = [ph EXCEPT ![n][t] = x]
  /\ \A m \in Node : m # n => og2[m] = og[m]
  /\ \A u \in Id : u # t /\ og2[n].id = u => og[n].id = u

\* The target of t moves on.
LEMMA TargetChange ==
  ASSUME NEW ph, NEW og, NEW rt, NEW dr, SessionsOf(ph, og, rt, dr),
         NEW up \in [Conn -> Seq(Message)], NEW in \in [Node -> Seq(Message)],
         Ends(ph, og, rt, dr), Mail(ph, og, rt, dr, up, in),
         NEW t \in 1 .. dr, NEW n \in Node, n = rt[t].target,
         NEW x \in {"rejected", "failed", "completed", "awaitingData",
                    "receiving"},
         NEW ph2, NEW og2, OnlyAt(ph, og, ph2, og2, n, t, x),
         ph[n][t] \notin Ended, ph[n][t] # "none" \/ NoToken(up, in, t),
         x = "completed" => /\ ph[rt[t].source][t] \notin
                                 {"awaitingDecision", "failed"}
                            /\ og[rt[t].source].id # t
  PROVE  Ends(ph2, og2, rt, dr) /\ Mail(ph2, og2, rt, dr, up, in)
<1> DEFINE s == rt[t].source
<1>1. t \in Id /\ \A u \in 1 .. dr : u \in Id
  BY BoundAssumption DEF SessionsOf, Id
<1>2. /\ s \in Node /\ s # n /\ og2[s] = og[s]
      /\ \A u \in Id : rt[u].source \in Node /\ rt[u].target \in Node
  BY <1>1 DEF SessionsOf, Route, Ends, Beliefs, OnlyAt
<1>3. /\ ph2[n][t] = x
      /\ \A m \in Node, u \in Id : m # n \/ u # t => ph2[m][u] = ph[m][u]
  BY <1>1 DEF SessionsOf, OnlyAt
<1>4. \A m \in Node, u \in Id : u # t /\ og2[m].id = u => og[m].id = u
  BY DEF OnlyAt
<1>5. Roles(ph2, rt, dr)
  BY <1>1, <1>3 DEF Roles, Ends
<1>6. ASSUME NEW u \in 1 .. dr PROVE Beliefs(ph2, og2, rt, u)
  <2>1. CASE u # t
    <3>1. Beliefs(ph, og, rt, u)
      BY DEF Ends
    <3>2. \A m \in Node : ph2[m][u] = ph[m][u] /\ (og2[m].id = u => og[m].id = u)
      BY <1>1, <1>3, <1>4, <2>1
    <3>3. rt[u].source \in Node /\ rt[u].target \in Node
      BY <1>1, <1>2
    <3> QED  BY <3>1, <3>2, <3>3 DEF Beliefs
  <2>2. CASE u = t
    BY <1>1, <1>2, <1>3, <1>6, <2>2 DEF Ends, Beliefs, Ended
  <2> QED  BY <2>1, <2>2
<1>7. ASSUME NEW u \in 1 .. dr PROVE Evolves(ph, og, rt, up, in, ph2, og2, u)
  <2>1. CASE u # t
    BY <1>1, <1>2, <1>3, <1>4, <1>7, <2>1 DEF Evolves
  <2>2. CASE u = t
    BY <1>1, <1>2, <1>3, <1>7, <2>2 DEF Evolves, Ended
  <2> QED  BY <2>1, <2>2
<1>8. Mail(ph2, og2, rt, dr, up, in)
  BY <1>7, MailEvolves
<1> QED  BY <1>5, <1>6, <1>8 DEF Ends

\* Its source does.
LEMMA SourceChange ==
  ASSUME NEW ph, NEW og, NEW rt, NEW dr, SessionsOf(ph, og, rt, dr),
         NEW up \in [Conn -> Seq(Message)], NEW in \in [Node -> Seq(Message)],
         Ends(ph, og, rt, dr), Mail(ph, og, rt, dr, up, in),
         NEW t \in 1 .. dr, NEW n \in Node, n = rt[t].source,
         NEW x \in {"rejected", "failed", "completed", "sending"},
         NEW ph2, NEW og2, OnlyAt(ph, og, ph2, og2, n, t, x),
         x = "completed" => ph[rt[t].target][t] = "completed",
         x = "rejected" => ph[rt[t].target][t] = "rejected",
         x = "failed" => ph[rt[t].target][t] # "completed",
         x = "failed" => \/ ph[rt[t].target][t] = "failed"
                         \/ ph[n][t] = "awaitingDecision" \/ og[n].id = t,
         x = "sending" => ph[n][t] = "sending" \/ NoToken(up, in, t),
         og2[n].id = t =>
           ph[n][t] = "awaitingDecision" \/ og[n].id = t
  PROVE  Ends(ph2, og2, rt, dr) /\ Mail(ph2, og2, rt, dr, up, in)
<1> DEFINE r == rt[t].target
<1>1. t \in Id /\ \A u \in 1 .. dr : u \in Id
  BY BoundAssumption DEF SessionsOf, Id
<1>2. /\ r \in Node /\ r # n
      /\ \A u \in Id : rt[u].source \in Node /\ rt[u].target \in Node
  BY <1>1 DEF SessionsOf, Route, Ends, Beliefs
<1>3. /\ ph2[n][t] = x
      /\ \A m \in Node, u \in Id : m # n \/ u # t => ph2[m][u] = ph[m][u]
  BY <1>1 DEF SessionsOf, OnlyAt
<1>4. \A m \in Node, u \in Id : u # t /\ og2[m].id = u => og[m].id = u
  BY DEF OnlyAt
<1>5. Roles(ph2, rt, dr)
  BY <1>1, <1>3 DEF Roles, Ends
<1>6. ASSUME NEW u \in 1 .. dr PROVE Beliefs(ph2, og2, rt, u)
  <2>1. CASE u # t
    <3>1. Beliefs(ph, og, rt, u)
      BY DEF Ends
    <3>2. \A m \in Node : ph2[m][u] = ph[m][u] /\ (og2[m].id = u => og[m].id = u)
      BY <1>1, <1>3, <1>4, <2>1
    <3>3. rt[u].source \in Node /\ rt[u].target \in Node
      BY <1>1, <1>2
    <3> QED  BY <3>1, <3>2, <3>3 DEF Beliefs
  <2>2. CASE u = t
    BY <1>1, <1>2, <1>3, <1>6, <2>2 DEF Ends, Beliefs
  <2> QED  BY <2>1, <2>2
<1>7. ASSUME NEW u \in 1 .. dr PROVE Evolves(ph, og, rt, up, in, ph2, og2, u)
  <2>1. CASE u # t
    BY <1>1, <1>2, <1>3, <1>4, <1>7, <2>1 DEF Evolves
  <2>2. CASE u = t
    BY <1>1, <1>2, <1>3, <1>7, <2>2 DEF Evolves
  <2> QED  BY <2>1, <2>2
<1>8. Mail(ph2, og2, rt, dr, up, in)
  BY <1>7, MailEvolves
<1> QED  BY <1>5, <1>6, <1>8 DEF Ends

\* A connection is lost: c's sessions are gone.
LEMMA GoneChange ==
  ASSUME NEW ph, NEW og, NEW rt, NEW dr, SessionsOf(ph, og, rt, dr),
         NEW up \in [Conn -> Seq(Message)], NEW in \in [Node -> Seq(Message)],
         Ends(ph, og, rt, dr), Mail(ph, og, rt, dr, up, in),
         NEW c \in Node,
         NEW ph2, NEW og2, og2 = [og EXCEPT ![c] = NoReader],
         ph2 = [ph EXCEPT ![c] = [t \in Id |-> IF ph[c][t] \in Live THEN "gone"
                                               ELSE ph[c][t]]]
  PROVE  Ends(ph2, og2, rt, dr) /\ Mail(ph2, og2, rt, dr, up, in)
<1>1. \A u \in 1 .. dr : u \in Id /\ u # 0
  BY BoundAssumption DEF SessionsOf, Id
<1>2. \A u \in Id : rt[u].source \in Node /\ rt[u].target \in Node
  BY DEF SessionsOf, Route
<1>3. \A m \in Node, u \in Id :
        \/ ph2[m][u] = ph[m][u]
        \/ ph2[m][u] = "gone" /\ ph[m][u] \in Live
  BY DEF SessionsOf
<1>4. \A m \in Node, u \in Id : og2[m].id = u => og[m].id = u
  <2>1. \A m \in Node : og2[m] = og[m] \/ og2[m].id = 0
    BY DEF SessionsOf, NoReader
  <2> QED  BY <2>1 DEF Id
<1>5. Roles(ph2, rt, dr)
  BY <1>1, <1>3 DEF Roles, Ends, Live
<1>6. ASSUME NEW u \in 1 .. dr PROVE Beliefs(ph2, og2, rt, u)
  <2>1. Beliefs(ph, og, rt, u)
    BY DEF Ends
  <2> QED  BY <1>1, <1>2, <1>3, <1>4, <2>1 DEF Beliefs, Live
<1>7. ASSUME NEW u \in 1 .. dr PROVE Evolves(ph, og, rt, up, in, ph2, og2, u)
  BY <1>1, <1>2, <1>3, <1>4, <1>7 DEF Evolves, Live
<1>8. Mail(ph2, og2, rt, dr, up, in)
  BY <1>7, MailEvolves
<1> QED  BY <1>5, <1>6, <1>8 DEF Ends

\* Transfer t is new, and n offers it to computer to.
Offered(ph, rt, dr, n, to, t, ph2, rt2) ==
  /\ t = dr + 1 /\ dr < MaxTransfers
  /\ ph2 = [ph EXCEPT ![n][t] = "awaitingDecision"]
  /\ \E request : rt2 = [rt EXCEPT ![t] = [source |-> n, target |-> to,
                                           request |-> request]]

\* A transfer is offered under an id of its own.
LEMMA NewTransfer ==
  ASSUME NEW ph, NEW og, NEW rt, NEW dr, SessionsOf(ph, og, rt, dr),
         NEW up \in [Conn -> Seq(Message)], NEW in \in [Node -> Seq(Message)],
         Ends(ph, og, rt, dr), Mail(ph, og, rt, dr, up, in),
         NEW n \in Node, NEW to \in Node, n # to, NEW t, NEW ph2, NEW rt2,
         Offered(ph, rt, dr, n, to, t, ph2, rt2)
  PROVE  /\ Ends(ph2, og, rt2, t) /\ Mail(ph2, og, rt2, t, up, in)
         /\ NoToken(up, in, t)
<1>0. /\ t = dr + 1 /\ dr < MaxTransfers
      /\ ph2 = [ph EXCEPT ![n][t] = "awaitingDecision"]
  BY DEF Offered
<1>1. t \in Id /\ \A u \in 1 .. dr : u \in Id /\ u # t /\ u \in 1 .. t
  BY <1>0, BoundAssumption DEF SessionsOf, Id
<1>2. /\ rt2[t].source = n /\ rt2[t].target = to
      /\ \A u \in Id : u # t => rt2[u] = rt[u]
  BY <1>1 DEF SessionsOf, Offered
<1>3. /\ ph2[n][t] = "awaitingDecision"
      /\ \A m \in Node, u \in Id : m # n \/ u # t => ph2[m][u] = ph[m][u]
  BY <1>0, <1>1 DEF SessionsOf
<1>4. \A u \in 1 .. t : u \in 1 .. dr \/ u = t
  BY <1>0 DEF SessionsOf
<1>5. \A m \in Node : ph[m][t] = "none"
  <2>1. t \notin 1 .. dr
    BY <1>0 DEF SessionsOf
  <2> QED  BY <1>1, <2>1 DEF Ends, Roles
<1>6. Roles(ph2, rt2, t)
  <2>1. t \in 1 .. t
    BY <1>1 DEF Id
  <2>2. ASSUME NEW m \in Node, NEW u \in Id, u # t
        PROVE  /\ u \notin 1 .. t => ph2[m][u] = "none"
               /\ ph2[m][u] \in {"awaitingDecision", "sending"} =>
                    m = rt2[u].source
               /\ ph2[m][u] \in {"awaitingData", "receiving"} =>
                    m = rt2[u].target
    BY <1>1, <1>2, <1>3, <2>2 DEF Ends, Roles
  <2>3. \A m \in Node : m # n => ph2[m][t] = "none"
    BY <1>1, <1>3, <1>5
  <2> QED  BY <1>2, <1>3, <2>1, <2>2, <2>3 DEF Roles
<1>7. ASSUME NEW u \in 1 .. t PROVE Beliefs(ph2, og, rt2, u)
  <2>1. CASE u \in 1 .. dr
    <3>1. Beliefs(ph, og, rt, u) /\ rt2[u] = rt[u]
      BY <1>1, <1>2, <2>1 DEF Ends
    <3>2. rt[u].source \in Node /\ rt[u].target \in Node /\ u \in Id /\ u # t
      BY <1>1, <2>1 DEF SessionsOf, Route
    <3> QED  BY <1>3, <3>1, <3>2 DEF Beliefs
  <2>2. CASE u = t
    BY <1>1, <1>2, <1>3, <1>5, <2>2 DEF Beliefs
  <2> QED  BY <1>4, <2>1, <2>2
<1>8. ASSUME NEW m, NEW p, Sound(ph, og, rt, dr, m, p)
      PROVE  Sound(ph2, og, rt2, t, m, p)
  <2>1. CASE m.type \in {"request", "response"}
    BY <1>8, <2>1 DEF Sound
  <2>2. CASE m.type \notin {"request", "response"}
    <3>1. m.id \in 1 .. dr /\ m.id \in Id /\ m.id # t /\ m.id \in 1 .. t
      BY <1>1, <1>8, <2>2 DEF Sound
    <3>2. /\ rt2[m.id] = rt[m.id]
          /\ rt[m.id].source \in Node /\ rt[m.id].target \in Node
      BY <1>2, <3>1 DEF SessionsOf, Route
    <3> QED  BY <1>3, <1>8, <2>2, <3>1, <3>2 DEF Sound
  <2> QED  BY <2>1, <2>2
<1>9. ASSUME NEW m, NEW c, SoundUp(ph, og, rt, dr, m, c)
      PROVE  SoundUp(ph2, og, rt2, t, m, c)
  <2>1. CASE m.type = "request"
    BY <1>9, <2>1 DEF SoundUp
  <2>2. CASE m.type # "request"
    <3>1. m.type # "response" /\ Sound(ph, og, rt, dr, m, Other(rt, c, m.id))
      BY <1>9, <2>2 DEF SoundUp
    <3>2. m.id \in 1 .. dr
      BY <2>2, <3>1 DEF Sound
    <3>3. rt2[m.id] = rt[m.id]
      BY <1>1, <1>2, <3>2
    <3> QED  BY <1>8, <1>9, <2>2, <3>1, <3>3 DEF SoundUp, Other
  <2> QED  BY <2>1, <2>2
<1>10. Mail(ph2, og, rt2, t, up, in)
  BY <1>8, <1>9 DEF Mail
<1>11. NoToken(up, in, t)
  <2>1. ASSUME NEW m, NEW p, Sound(ph, og, rt, dr, m, p), m.type \in Token
        PROVE  m.id # t
    BY <1>1, <2>1 DEF Sound, Token
  <2>2. ASSUME NEW m, NEW c, SoundUp(ph, og, rt, dr, m, c), m.type \in Token
        PROVE  m.id # t
    BY <2>1, <2>2 DEF SoundUp, Token
  <2> QED  BY <2>1, <2>2 DEF NoToken, Tok, Mail
<1> QED  BY <1>6, <1>7, <1>10, <1>11 DEF Ends

-----------------------------------------------------------------------------
(* The actions.                                                            *)

\* The inductive invariant, beside types and Slots.
Agree ==
  /\ Ends(phase, outgoing, route, drawn)
  /\ Mail(phase, outgoing, route, drawn, upstream, inbox)
  /\ Alone(upstream, inbox)

\* The same when the queues at the computers are in.
AgreeWith(in) ==
  /\ in \in [Node -> Seq(Message)]
  /\ Ends(phase, outgoing, route, drawn)
  /\ Mail(phase, outgoing, route, drawn, upstream, in)
  /\ Alone(upstream, in)

LEMMA StateTypes ==
  ASSUME FullType
  PROVE  /\ SessionsOf(phase, outgoing, route, drawn)
         /\ upstream \in [Conn -> Seq(Message)]
         /\ inbox \in [Node -> Seq(Message)]
         /\ \A t \in 1 .. drawn : t \in Id
BY BoundAssumption
   DEF FullType, SessionsOf, SessionType, IdType, NetType, Id

LEMMA OtherIsOtherEnd ==
  ASSUME NEW n, NEW t PROVE Other(route, n, t) = OtherEnd(n, t)
BY DEF Other, OtherEnd

\* A session is that of the source or of the target, which are two computers.
LEMMA SessionEnds ==
  ASSUME FullType, Ends(phase, outgoing, route, drawn),
         NEW n \in Node, NEW t \in Sessions(n)
  PROVE  /\ t \in 1 .. drawn /\ t \in Id
         /\ route[t].source # route[t].target
         /\ \/ n = route[t].source
               /\ phase[n][t] \in {"awaitingDecision", "sending"}
            \/ n = route[t].target
               /\ phase[n][t] \in {"awaitingData", "receiving"}
<1>1. t \in Id /\ phase[n][t] \in Live
  BY DEF Sessions
<1>2. t \in 1 .. drawn
  BY <1>1 DEF Ends, Roles, Live
<1>3. Beliefs(phase, outgoing, route, t)
  BY <1>2 DEF Ends
<1> QED  BY <1>1, <1>2, <1>3 DEF Ends, Roles, Live, Beliefs

\* Taking the head of a computer's queue.
LEMMA Takes ==
  ASSUME FullType, Agree, NEW n \in Node, inbox[n] # << >>
  PROVE  /\ AgreeWith(Taken(n)) /\ Head(inbox[n]) \in Message
         /\ Sound(phase, outgoing, route, drawn, Head(inbox[n]), n)
         /\ Head(inbox[n]).type \in Token =>
              NoToken(upstream, Taken(n), Head(inbox[n]).id)
<1> DEFINE in2 == Taken(n)
<1>1. in2 = [inbox EXCEPT ![n] = Tail(@)]
  BY DEF Taken
<1>2. Head(inbox[n]) \in Message
  BY TakenType DEF FullType
<1> HIDE DEF in2
<1>3. /\ Mail(phase, outgoing, route, drawn, upstream, in2)
      /\ Alone(upstream, in2)
      /\ Sound(phase, outgoing, route, drawn, Head(inbox[n]), n)
      /\ Head(inbox[n]).type \in Token =>
           NoToken(upstream, in2, Head(inbox[n]).id)
      /\ in2 \in [Node -> Seq(Message)]
  BY <1>1, StateTypes, TakeIn DEF Agree
<1> QED  BY <1>2, <1>3 DEF in2, AgreeWith, Agree

LEMMA IgnoresAgrees ==
  ASSUME FullType, Agree, NEW n \in Node, inbox[n] # << >>, Ignores(n),
         UNCHANGED idVars
  PROVE  Agree'
<1>1. AgreeWith(Taken(n))
  BY Takes
<1>2. /\ inbox' = Taken(n) /\ upstream' = upstream /\ phase' = phase
      /\ outgoing' = outgoing /\ route' = route /\ drawn' = drawn
  BY DEF Ignores, sessionVars, idVars
<1> QED  BY <1>1, <1>2 DEF Agree, AgreeWith

LEMMA OfferAgrees ==
  ASSUME FullType, NEW in, AgreeWith(in), NEW n \in Node, NEW to \in Node,
         n # to, NEW request, offerLocalFiles(n, to, request, in)
  PROVE  Agree'
<1> DEFINE t == drawn + 1
           ms == <<Control("offer", t)>>
<1>1. /\ drawn < MaxTransfers /\ drawn' = t
      /\ route' = [route EXCEPT ![t] = [source |-> n, target |-> to,
                                        request |-> request]]
      /\ phase' = [phase EXCEPT ![n][t] = "awaitingDecision"]
      /\ Posts(n, to, ms, in) /\ outgoing' = outgoing
  BY DEF offerLocalFiles
<1>2. drawn \in 0 .. MaxTransfers /\ t \in Id /\ t \in 1 .. t
      /\ t \notin 1 .. drawn
  BY <1>1, BoundAssumption DEF FullType, IdType, Id
<1>3. Control("offer", t) \in Message
  BY <1>2, ControlIsMessage
<1>4. t = drawn + 1
  OBVIOUS
<1> HIDE DEF t
<1>5. /\ Ends(phase', outgoing', route', drawn')
      /\ Mail(phase', outgoing', route', drawn', upstream, in)
      /\ NoToken(upstream, in, t)
  <2>1. /\ SessionsOf(phase, outgoing, route, drawn)
        /\ upstream \in [Conn -> Seq(Message)] /\ in \in [Node -> Seq(Message)]
        /\ Ends(phase, outgoing, route, drawn)
        /\ Mail(phase, outgoing, route, drawn, upstream, in)
    BY StateTypes DEF AgreeWith
  <2>2. /\ Ends(phase', outgoing, route', t)
        /\ Mail(phase', outgoing, route', t, upstream, in)
        /\ NoToken(upstream, in, t)
    <3>1. Offered(phase, route, drawn, n, to, t, phase', route')
      BY <1>1, <1>4 DEF Offered
    <3> QED  BY ONLY <2>1, <3>1, n \in Node, to \in Node, n # to, NewTransfer
  <2> QED  BY <1>1, <2>2
<1>6. /\ route'[t].source = n /\ route'[t].target = to
      /\ phase'[n][t] = "awaitingDecision" /\ phase'[to][t] = phase[to][t]
  BY <1>1, <1>2 DEF FullType, IdType, SessionType
<1>7. phase[to][t] = "none"
  BY <1>2 DEF AgreeWith, Ends, Roles
<1>8. Control("offer", t).type = "offer" /\ Control("offer", t).id = t
  BY DEF Control
<1>9. Sound(phase', outgoing', route', drawn', Control("offer", t), to)
  BY <1>1, <1>2, <1>6, <1>7, <1>8 DEF Sound
<1>10. /\ ms \in Seq(Message) /\ ms = <<Control("offer", t)>>
       /\ \A i \in 1 .. Len(ms) : ms[i] = Control("offer", t)
  BY <1>3
<1> HIDE DEF ms
<1>11. Mailable(upstream, in, ms)
  BY <1>3, <1>5, <1>8, <1>10 DEF Mailable
<1>12. \A i \in 1 .. Len(ms) :
         /\ ms[i].type \notin {"request", "response"}
         /\ n \in {route'[ms[i].id].source, route'[ms[i].id].target}
         /\ Other(route', n, ms[i].id) = to
         /\ Sound(phase', outgoing', route', drawn', ms[i], to)
  <2>1. Other(route', n, t) = to
    BY <1>6 DEF Other
  <2> QED  BY <1>6, <1>8, <1>9, <1>10, <2>1
<1>13. /\ Mail(phase', outgoing', route', drawn', upstream', inbox')
       /\ Alone(upstream', inbox')
  <2>1. /\ NetType /\ in \in [Node -> Seq(Message)] /\ Alone(upstream, in)
        /\ Mail(phase', outgoing', route', drawn', upstream, in)
        /\ ms \in Seq(Message) /\ Posts(n, to, ms, in)
    BY <1>1, <1>5, <1>10 DEF AgreeWith, FullType
  <2> QED
    BY ONLY <1>11, <1>12, <2>1, n \in Node, to \in Node, PostKeepsMail
<1> QED  BY <1>5, <1>13 DEF Agree

\* Messages of transfer t from one of its ends, when the sessions have changed.
LEMMA SendAgrees ==
  ASSUME FullType, NEW in \in [Node -> Seq(Message)], Alone(upstream, in),
         Ends(phase', outgoing', route, drawn),
         Mail(phase', outgoing', route, drawn, upstream, in),
         UNCHANGED idVars, NEW n \in Node, NEW t \in Id,
         n \in {route[t].source, route[t].target},
         NEW ms \in Seq(Message),
         \A i \in 1 .. Len(ms) :
           /\ ms[i].id = t /\ ms[i].type \notin {"request", "response"}
           /\ Sound(phase', outgoing', route, drawn, ms[i], OtherEnd(n, t)),
         Mailable(upstream, in, ms), Posts(n, OtherEnd(n, t), ms, in)
  PROVE  Agree'
<1>1. route' = route /\ drawn' = drawn
  BY DEF idVars
<1>2. OtherEnd(n, t) \in Node
  BY OtherEndType DEF FullType
<1>3. \A i \in 1 .. Len(ms) :
        /\ ms[i].type \notin {"request", "response"}
        /\ n \in {route[ms[i].id].source, route[ms[i].id].target}
        /\ Other(route, n, ms[i].id) = OtherEnd(n, t)
        /\ Sound(phase', outgoing', route, drawn, ms[i], OtherEnd(n, t))
  BY OtherIsOtherEnd
<1>4. /\ Mail(phase', outgoing', route, drawn, upstream', inbox')
      /\ Alone(upstream', inbox')
  <2>1. NetType
    BY DEF FullType
  <2> QED
    BY ONLY <1>2, <1>3, <2>1, in \in [Node -> Seq(Message)], n \in Node,
       Alone(upstream, in), ms \in Seq(Message), Mailable(upstream, in, ms),
       Mail(phase', outgoing', route, drawn, upstream, in),
       Posts(n, OtherEnd(n, t), ms, in), PostKeepsMail
<1> QED  BY <1>1, <1>4 DEF Agree

\* The two lemmas on sessions, for the state.
LEMMA TargetMoves ==
  ASSUME FullType, NEW in, AgreeWith(in), NEW t \in 1 .. drawn,
         NEW n \in Node, n = route[t].target,
         NEW x \in {"rejected", "failed", "completed", "awaitingData",
                    "receiving"},
         OnlyAt(phase, outgoing, phase', outgoing', n, t, x),
         phase[n][t] \notin Ended,
         phase[n][t] # "none" \/ NoToken(upstream, in, t),
         x = "completed" => /\ phase[route[t].source][t] \notin
                                 {"awaitingDecision", "failed"}
                            /\ outgoing[route[t].source].id # t
  PROVE  /\ Ends(phase', outgoing', route, drawn)
         /\ Mail(phase', outgoing', route, drawn, upstream, in)
<1>1. /\ SessionsOf(phase, outgoing, route, drawn)
      /\ upstream \in [Conn -> Seq(Message)] /\ in \in [Node -> Seq(Message)]
      /\ Ends(phase, outgoing, route, drawn)
      /\ Mail(phase, outgoing, route, drawn, upstream, in)
  BY StateTypes DEF AgreeWith
<1>2. x = "completed" => /\ phase[route[t].source][t] \notin
                                {"awaitingDecision", "failed"}
                         /\ outgoing[route[t].source].id # t
  OBVIOUS
<1>3. /\ phase[n][t] \notin Ended
      /\ phase[n][t] # "none" \/ NoToken(upstream, in, t)
      /\ OnlyAt(phase, outgoing, phase', outgoing', n, t, x)
      /\ n = route[t].target
  OBVIOUS
<1> QED
  BY ONLY <1>1, <1>2, <1>3, t \in 1 .. drawn, n \in Node,
     x \in {"rejected", "failed", "completed", "awaitingData", "receiving"},
     TargetChange

LEMMA SourceMoves ==
  ASSUME FullType, NEW in, AgreeWith(in), NEW t \in 1 .. drawn,
         NEW n \in Node, n = route[t].source,
         NEW x \in {"rejected", "failed", "completed", "sending"},
         OnlyAt(phase, outgoing, phase', outgoing', n, t, x),
         x = "completed" => phase[route[t].target][t] = "completed",
         x = "rejected" => phase[route[t].target][t] = "rejected",
         x = "failed" => phase[route[t].target][t] # "completed",
         x = "failed" => \/ phase[route[t].target][t] = "failed"
                         \/ phase[n][t] = "awaitingDecision"
                         \/ outgoing[n].id = t,
         x = "sending" => phase[n][t] = "sending" \/ NoToken(upstream, in, t),
         outgoing'[n].id = t =>
           phase[n][t] = "awaitingDecision" \/ outgoing[n].id = t
  PROVE  /\ Ends(phase', outgoing', route, drawn)
         /\ Mail(phase', outgoing', route, drawn, upstream, in)
<1>1. /\ SessionsOf(phase, outgoing, route, drawn)
      /\ upstream \in [Conn -> Seq(Message)] /\ in \in [Node -> Seq(Message)]
      /\ Ends(phase, outgoing, route, drawn)
      /\ Mail(phase, outgoing, route, drawn, upstream, in)
  BY StateTypes DEF AgreeWith
<1>2. /\ x = "completed" => phase[route[t].target][t] = "completed"
      /\ x = "rejected" => phase[route[t].target][t] = "rejected"
      /\ x = "failed" => phase[route[t].target][t] # "completed"
      /\ x = "failed" => \/ phase[route[t].target][t] = "failed"
                         \/ phase[n][t] = "awaitingDecision"
                         \/ outgoing[n].id = t
  OBVIOUS
<1>3. /\ x = "sending" => phase[n][t] = "sending" \/ NoToken(upstream, in, t)
      /\ outgoing'[n].id = t =>
           phase[n][t] = "awaitingDecision" \/ outgoing[n].id = t
      /\ OnlyAt(phase, outgoing, phase', outgoing', n, t, x)
      /\ n = route[t].source
  OBVIOUS
<1> QED
  BY ONLY <1>1, <1>2, <1>3, t \in 1 .. drawn, n \in Node,
     x \in {"rejected", "failed", "completed", "sending"}, SourceChange

LEMMA ClosesOnly ==
  ASSUME FullType, NEW n \in Node, NEW t \in Id, NEW how, Closes(n, t, how)
  PROVE  /\ OnlyAt(phase, outgoing, phase', outgoing', n, t, how)
         /\ outgoing'[n].id # t /\ phase'[n][t] = how
<1>1. /\ phase' = [phase EXCEPT ![n][t] = how]
      /\ outgoing' = [outgoing EXCEPT
                        ![n] = IF outgoing[n].id = t THEN NoReader
                               ELSE outgoing[n]]
  BY DEF Closes
<1>2. NoReader.id = 0 /\ 0 \notin Id
  BY DEF NoReader, Id
<1>3. outgoing'[n].id # t /\ phase'[n][t] = how
  BY <1>1, <1>2 DEF FullType, SessionType
<1>4. /\ \A m \in Node : m # n => outgoing'[m] = outgoing[m]
      /\ \A u \in Id : u # t /\ outgoing'[n].id = u => outgoing[n].id = u
  BY <1>1, <1>2 DEF FullType, SessionType
<1> QED  BY <1>1, <1>3, <1>4 DEF OnlyAt

\* A session fails, at the source only while it awaits the decision or reads:
\* the other end may be told so, after any data.
LEMMA FailAgrees ==
  ASSUME FullType, NEW in, AgreeWith(in), UNCHANGED idVars, NEW n \in Node,
         NEW t \in Id, NEW ms \in Seq(Message),
         t \in Sessions(n) /\ n = route[t].source =>
           phase[n][t] = "awaitingDecision" \/ outgoing[n].id = t,
         \/ ms = << >>
         \/ /\ t \in Sessions(n) /\ n = route[t].source
            /\ \A i \in 1 .. Len(ms) :
                 ms[i].type \in {"chunk", "itemEnd"} /\ ms[i].id = t,
         failSession(n, t, ms, in)
  PROVE  Agree'
<1>1. CASE t \notin Sessions(n)
  <2>1. UNCHANGED sessionVars /\ ms = << >> /\ Posts(n, OtherEnd(n, t), ms, in)
    BY <1>1 DEF failSession
  <2>2. /\ phase' = phase /\ outgoing' = outgoing
        /\ route' = route /\ drawn' = drawn
    BY <2>1 DEF sessionVars, idVars
  <2>3. OtherEnd(n, t) \in Node /\ NetType
    BY OtherEndType DEF FullType
  <2>4. Mailable(upstream, in, ms) /\ Len(ms) = 0
    BY <2>1 DEF Mailable
  <2>5. \A i \in 1 .. Len(ms) :
          /\ ms[i].type \notin {"request", "response"}
          /\ n \in {route[ms[i].id].source, route[ms[i].id].target}
          /\ Other(route, n, ms[i].id) = OtherEnd(n, t)
          /\ Sound(phase, outgoing, route, drawn, ms[i], OtherEnd(n, t))
    BY <2>4
  <2>6. /\ in \in [Node -> Seq(Message)] /\ Alone(upstream, in)
        /\ Mail(phase, outgoing, route, drawn, upstream, in)
        /\ Ends(phase, outgoing, route, drawn)
    BY DEF AgreeWith
  <2>7. /\ Mail(phase, outgoing, route, drawn, upstream', inbox')
        /\ Alone(upstream', inbox')
    <3>1. Posts(n, OtherEnd(n, t), ms, in) /\ Mailable(upstream, in, ms)
      BY <2>1, <2>4
    <3> QED
      BY ONLY <2>3, <2>5, <2>6, <3>1, n \in Node, ms \in Seq(Message),
         PostKeepsMail
  <2> QED  BY <2>2, <2>6, <2>7 DEF Agree
<1>2. CASE t \in Sessions(n)
  <2> DEFINE f == Control("failed", t)
             all == Append(ms, f)
             s == route[t].source
             r == route[t].target
  <2>1. /\ t \in 1 .. drawn /\ s # r
        /\ \/ n = s /\ phase[n][t] \in {"awaitingDecision", "sending"}
           \/ n = r /\ phase[n][t] \in {"awaitingData", "receiving"}
    BY <1>2, SessionEnds DEF AgreeWith
  <2>2. Posts(n, OtherEnd(n, t), all, in) /\ Closes(n, t, "failed")
    BY <1>2 DEF failSession
  <2>3. /\ OnlyAt(phase, outgoing, phase', outgoing', n, t, "failed")
        /\ outgoing'[n].id # t /\ phase'[n][t] = "failed"
    BY <2>2, ClosesOnly
  <2>4. /\ Ends(phase', outgoing', route, drawn)
        /\ Mail(phase', outgoing', route, drawn, upstream, in)
    <3>1. CASE n = r
      <4>1. phase[n][t] \notin Ended /\ phase[n][t] # "none"
        BY <2>1, <3>1 DEF Ended
      <4> QED  BY <2>1, <2>3, <3>1, <4>1, TargetMoves
    <3>2. CASE n = s
      <4>1. phase[n][t] = "awaitingDecision" \/ outgoing[n].id = t
        BY <1>2, <3>2
      <4>2. phase[r][t] # "completed"
        BY <2>1, <3>2, <4>1 DEF AgreeWith, Ends, Beliefs
      <4> QED  BY <2>1, <2>3, <3>2, <4>1, <4>2, SourceMoves
    <3> QED  BY <2>1, <3>1, <3>2
  <2>5. f.type = "failed" /\ f.id = t /\ f \in Message
    BY ControlIsMessage DEF Control
  <2>6. Sound(phase', outgoing', route, drawn, f, OtherEnd(n, t))
    BY <2>1, <2>3, <2>5 DEF Sound, OtherEnd, Token
  <2> HIDE DEF f
  <2>7. all \in Seq(Message)
        /\ \A i \in 1 .. Len(all) : all[i] = f \/ (i \in 1 .. Len(ms) /\ all[i] = ms[i])
    BY <2>5
  <2>8. ASSUME NEW m, m.type \in {"chunk", "itemEnd"}, m.id = t, n = s
        PROVE  Sound(phase', outgoing', route, drawn, m, OtherEnd(n, t))
    BY <2>1, <2>8 DEF Sound, OtherEnd, Token
  <2>9. \A i \in 1 .. Len(ms) :
          n = s /\ ms[i].type \in {"chunk", "itemEnd"} /\ ms[i].id = t
    <3>1. ms = << >> => \A i \in 1 .. Len(ms) : FALSE
      OBVIOUS
    <3> QED  BY <3>1
  <2> HIDE DEF all
  <2>10. \A i \in 1 .. Len(all) :
           /\ all[i].id = t /\ all[i].type \notin Token
           /\ all[i].type \notin {"request", "response"}
           /\ Sound(phase', outgoing', route, drawn, all[i], OtherEnd(n, t))
    BY <2>5, <2>6, <2>7, <2>8, <2>9 DEF Token
  <2>11. Mailable(upstream, in, all)
    BY <2>10 DEF Mailable
  <2>12. in \in [Node -> Seq(Message)] /\ Alone(upstream, in)
    BY DEF AgreeWith
  <2>13. n \in {route[t].source, route[t].target}
    BY <2>1
  <2> QED
    BY ONLY FullType, UNCHANGED idVars, n \in Node, t \in Id, <2>2, <2>4, <2>7,
       <2>10, <2>11, <2>12, <2>13, SendAgrees
<1> QED  BY <1>1, <1>2

\* One message to the other end, after the sessions have changed.
LEMMA TellAgrees ==
  ASSUME FullType, NEW in \in [Node -> Seq(Message)], Alone(upstream, in),
         Ends(phase', outgoing', route, drawn),
         Mail(phase', outgoing', route, drawn, upstream, in),
         UNCHANGED idVars, NEW n \in Node, NEW t \in Id,
         n \in {route[t].source, route[t].target},
         NEW m \in Message, m.id = t, m.type \notin {"request", "response"},
         Sound(phase', outgoing', route, drawn, m, OtherEnd(n, t)),
         m.type \in Token => NoToken(upstream, in, t),
         Posts(n, OtherEnd(n, t), <<m>>, in)
  PROVE  Agree'
<1> DEFINE ms == <<m>>
<1>1. ms = <<m>> /\ ms \in Seq(Message) /\ Posts(n, OtherEnd(n, t), ms, in)
  OBVIOUS
<1>2. \A i \in 1 .. Len(ms) : ms[i] = m
  OBVIOUS
<1> HIDE DEF ms
<1>3. \A i \in 1 .. Len(ms) :
        /\ ms[i].id = t /\ ms[i].type \notin {"request", "response"}
        /\ Sound(phase', outgoing', route, drawn, ms[i], OtherEnd(n, t))
  BY <1>2
<1>4. Mailable(upstream, in, ms)
  BY <1>1, <1>2 DEF Mailable
<1>5. ms \in Seq(Message) /\ Posts(n, OtherEnd(n, t), ms, in)
  BY <1>1
<1> QED
  BY ONLY FullType, UNCHANGED idVars, n \in Node, t \in Id, <1>3, <1>4, <1>5,
     in \in [Node -> Seq(Message)], Alone(upstream, in),
     Ends(phase', outgoing', route, drawn),
     Mail(phase', outgoing', route, drawn, upstream, in),
     n \in {route[t].source, route[t].target}, SendAgrees

LEMMA HandleOfferAgrees ==
  ASSUME FullType, Agree, NEW n \in Node, NEW w \in BOOLEAN, handleOffer(n, w)
  PROVE  Agree'
<1> DEFINE m == Head(inbox[n])
           t == m.id
           in == Taken(n)
           s == route[t].source
           r == route[t].target
<1>1. inbox[n] # << >> /\ m.type = "offer" /\ UNCHANGED idVars
  BY DEF handleOffer, Receives
<1>2. /\ AgreeWith(in) /\ NoToken(upstream, in, t)
      /\ Sound(phase, outgoing, route, drawn, m, n) /\ m \in Message
  BY <1>1, Takes DEF Token
<1>3. /\ t \in 1 .. drawn /\ n = r /\ phase[r][t] = "none"
      /\ phase[s][t] # "sending"
  BY <1>1, <1>2 DEF Sound, Token
<1>4. t \in Id
  BY <1>3, StateTypes
<1>5. Beliefs(phase, outgoing, route, t)
  BY <1>2, <1>3 DEF AgreeWith, Ends
<1>6. s # r /\ s \in Node
  BY <1>4, <1>5 DEF Beliefs, FullType, IdType, Route
<1>7. OtherEnd(n, t) = s /\ n \in {route[t].source, route[t].target}
  BY <1>3, <1>6 DEF OtherEnd
<1>8. in \in [Node -> Seq(Message)] /\ Alone(upstream, in)
  BY <1>2 DEF AgreeWith
<1> DEFINE to == OtherEnd(n, t)
<1>9. ASSUME NEW x \in {"rejected", "awaitingData", "failed"},
             phase' = [phase EXCEPT ![n][t] = x], UNCHANGED outgoing
      PROVE  /\ Ends(phase', outgoing', route, drawn)
             /\ Mail(phase', outgoing', route, drawn, upstream, in)
             /\ phase'[n][t] = x /\ phase'[s][t] = phase[s][t]
  <2>1. OnlyAt(phase, outgoing, phase', outgoing', n, t, x)
    BY <1>9 DEF OnlyAt
  <2>2. phase[n][t] \notin Ended
    BY <1>3 DEF Ended
  <2>3. phase'[n][t] = x /\ phase'[s][t] = phase[s][t]
    BY <1>3, <1>4, <1>6, <1>9 DEF FullType, SessionType
  <2> HIDE DEF in, t
  <2> QED  BY <1>2, <1>3, <2>1, <2>2, <2>3, TargetMoves
<1>10. ASSUME NEW type \in {"accept", "reject"},
              NEW x \in {"rejected", "awaitingData"},
              type = "reject" => x = "rejected",
              phase' = [phase EXCEPT ![n][t] = x], UNCHANGED outgoing,
              Posts(n, OtherEnd(n, t), <<Control(type, t)>>, in)
       PROVE  Agree'
  <2> DEFINE a == Control(type, t)
  <2>1. a \in Message /\ a.id = t /\ a.type = type
    BY <1>4, ControlIsMessage DEF Control
  <2>2. /\ Ends(phase', outgoing', route, drawn)
        /\ Mail(phase', outgoing', route, drawn, upstream, in)
        /\ phase'[n][t] = x /\ phase'[s][t] = phase[s][t]
    BY <1>9, <1>10
  <2>3. Posts(n, OtherEnd(n, t), <<a>>, in)
    BY <1>10
  <2> HIDE DEF a
  <2>4. Sound(phase', outgoing', route, drawn, a, OtherEnd(n, t))
    BY <1>3, <1>7, <1>10, <2>1, <2>2 DEF Sound
  <2>5. a.type \notin {"request", "response"}
    BY <2>1
  <2> HIDE DEF t, in
  <2> QED
    BY ONLY FullType, n \in Node, <1>1, <1>2, <1>4, <1>7, <1>8, <2>1, <2>2,
       <2>3, <2>4, <2>5, TellAgrees
<1>11. CASE Ignores(n)
  BY <1>1, <1>11, IgnoresAgrees
<1>12. CASE /\ phase' = [phase EXCEPT ![n][t] = "rejected"]
            /\ Posts(n, OtherEnd(n, t), <<Control("reject", t)>>, in)
            /\ UNCHANGED <<outgoing, incoming>>
  BY <1>10, <1>12
<1>13. CASE /\ phase' = [phase EXCEPT ![n][t] = "awaitingData"]
            /\ Posts(n, OtherEnd(n, t), <<Control("accept", t)>>, in)
            /\ UNCHANGED outgoing
  BY <1>10, <1>13
<1>14. CASE /\ phase' = [phase EXCEPT ![n][t] = "failed"]
            /\ inbox' = in /\ UNCHANGED <<upstream, outgoing, incoming>>
  <2>1. /\ Ends(phase', outgoing', route, drawn)
        /\ Mail(phase', outgoing', route, drawn, upstream, in)
    BY <1>9, <1>14
  <2> QED  BY <1>1, <1>8, <1>14, <2>1 DEF Agree, idVars
<1> QED  BY <1>11, <1>12, <1>13, <1>14 DEF handleOffer

LEMMA HandleDecisionAgrees ==
  ASSUME FullType, Agree, NEW n \in Node, NEW rd \in BOOLEAN,
         handleDecision(n, rd)
  PROVE  Agree'
<1> DEFINE m == Head(inbox[n])
           t == m.id
           in == Taken(n)
           s == route[t].source
           r == route[t].target
<1>1. inbox[n] # << >> /\ m.type \in {"accept", "reject"} /\ UNCHANGED idVars
  BY DEF handleDecision, Receives
<1>2. /\ AgreeWith(in) /\ NoToken(upstream, in, t)
      /\ Sound(phase, outgoing, route, drawn, m, n) /\ m \in Message
  BY <1>1, Takes DEF Token
<1>3. /\ t \in 1 .. drawn /\ n = s /\ phase[s][t] # "sending"
      /\ m.type = "reject" => phase[r][t] = "rejected"
  BY <1>1, <1>2 DEF Sound, Token
<1>4. t \in Id
  BY <1>3, StateTypes
<1>5. Beliefs(phase, outgoing, route, t)
  BY <1>2, <1>3 DEF AgreeWith, Ends
<1>6. s # r /\ r \in Node
  BY <1>4, <1>5 DEF Beliefs, FullType, IdType, Route
<1>7. OtherEnd(n, t) = r /\ n \in {route[t].source, route[t].target}
  BY <1>3, <1>6 DEF OtherEnd
<1>8. in \in [Node -> Seq(Message)] /\ Alone(upstream, in)
  BY <1>2 DEF AgreeWith
<1>9. CASE failSession(n, t, << >>, in)
  <2>1. t \in Sessions(n) => phase[n][t] = "awaitingDecision"
    BY <1>2, <1>3, <1>6, SessionEnds DEF AgreeWith
  <2>2. << >> \in Seq(Message)
    OBVIOUS
  <2> HIDE DEF in, t
  <2> QED  BY <1>1, <1>2, <1>4, <1>9, <2>1, <2>2, FailAgrees
<1>10. CASE Ignores(n)
  BY <1>1, <1>10, IgnoresAgrees
<1>11. CASE /\ AwaitsDecision(n, t) /\ m.type = "reject"
            /\ phase' = [phase EXCEPT ![n][t] = "rejected"]
            /\ inbox' = in /\ UNCHANGED <<upstream, outgoing>>
  <2>1. OnlyAt(phase, outgoing, phase', outgoing', n, t, "rejected")
    BY <1>11 DEF OnlyAt
  <2>2. outgoing'[n].id = t => phase[n][t] = "awaitingDecision"
    BY <1>11 DEF AwaitsDecision
  <2>3. phase[r][t] = "rejected"
    BY <1>3, <1>11
  <2>4. /\ Ends(phase', outgoing', route, drawn)
        /\ Mail(phase', outgoing', route, drawn, upstream, in)
    <3> HIDE DEF in, t
    <3> QED  BY <1>2, <1>3, <2>1, <2>2, <2>3, SourceMoves
  <2> QED  BY <1>1, <1>8, <1>11, <2>4 DEF Agree, idVars
<1>12. CASE /\ AwaitsDecision(n, t)
            /\ phase' = [phase EXCEPT ![n][t] = "sending"]
            /\ outgoing' = [outgoing EXCEPT
                              ![n] = [id |-> t, item |-> 0, chunk |-> 0]]
            /\ Posts(n, OtherEnd(n, t), <<Begin(t)>>, in)
  <2>1. OnlyAt(phase, outgoing, phase', outgoing', n, t, "sending")
    <3>1. \A p \in Node : p # n => outgoing'[p] = outgoing[p]
      BY <1>12 DEF FullType, SessionType
    <3>2. outgoing'[n].id = t
      BY <1>12 DEF FullType, SessionType
    <3> QED  BY <1>12, <3>1, <3>2 DEF OnlyAt
  <2>2. phase[n][t] = "awaitingDecision"
    BY <1>12 DEF AwaitsDecision
  <2>3. /\ Ends(phase', outgoing', route, drawn)
        /\ Mail(phase', outgoing', route, drawn, upstream, in)
    <3> HIDE DEF in, t
    <3> QED  BY <1>2, <1>3, <2>1, <2>2, SourceMoves
  <2> DEFINE b == Begin(t)
  <2>4. b \in Message /\ b.id = t /\ b.type = "begin"
    BY <1>4 DEF Begin, Message
  <2>5. Posts(n, OtherEnd(n, t), <<b>>, in)
    BY <1>12
  <2> HIDE DEF b
  <2>6. Sound(phase', outgoing', route, drawn, b, OtherEnd(n, t))
    BY <1>3, <1>7, <2>4 DEF Sound, Token
  <2>7. b.type \notin {"request", "response"}
    BY <2>4
  <2> HIDE DEF t, in
  <2> QED
    BY ONLY FullType, n \in Node, <1>1, <1>2, <1>4, <1>7, <1>8, <2>3, <2>4,
       <2>5, <2>6, <2>7, TellAgrees
<1> QED  BY <1>1, <1>9, <1>10, <1>11, <1>12 DEF handleDecision

\* The end of an offer is sent only with the end of its last file.
LEMMA PiecesOfReader ==
  ASSUME NEW o \in Reader
  PROVE  /\ Pieces(o) \in Seq(Message)
         /\ \A i \in 1 .. Len(Pieces(o)) :
              /\ Pieces(o)[i].id = o.id
              /\ Pieces(o)[i].type \in {"chunk", "itemEnd", "finish"}
              /\ Pieces(o)[i].type = "finish" =>
                   LastOfItem(o) /\ LastItem(o)
<1> DEFINE A == IF o.chunk < Chunks THEN <<Chunk(o.id, o.item, o.chunk)>>
                ELSE << >>
           B == IF LastOfItem(o) THEN <<ItemEnd(o.id, o.item)>> ELSE << >>
           C == IF LastOfItem(o) /\ LastItem(o) THEN <<Finish(o.id)>> ELSE << >>
           Good(m) == /\ m.id = o.id /\ m.type \in {"chunk", "itemEnd", "finish"}
                      /\ m.type = "finish" => LastOfItem(o) /\ LastItem(o)
<1>1. Chunk(o.id, o.item, o.chunk) \in Message \/ ~(o.chunk < Chunks)
  BY DEF Reader, Chunk, Message
<1>2. ItemEnd(o.id, o.item) \in Message /\ Finish(o.id) \in Message
  BY DEF Reader, ItemEnd, Finish, Message
<1>3. A \in Seq(Message) /\ B \in Seq(Message) /\ C \in Seq(Message)
  BY <1>1, <1>2
<1>4. \A i \in 1 .. Len(A) : Good(A[i])
  BY DEF Chunk
<1>5. \A i \in 1 .. Len(B) : Good(B[i])
  BY DEF ItemEnd
<1>6. \A i \in 1 .. Len(C) : Good(C[i])
  BY DEF Finish
<1>7. Pieces(o) = (A \o B) \o C
  BY DEF Pieces
<1> HIDE DEF A, B, C, Good
<1>8. A \o B \in Seq(Message)
  BY <1>3
<1>9. \A i \in 1 .. Len(A \o B) : Good((A \o B)[i])
  BY <1>3, <1>4, <1>5, JoinElements
<1>10. \A i \in 1 .. Len((A \o B) \o C) : Good(((A \o B) \o C)[i])
  BY <1>3, <1>6, <1>8, <1>9, JoinElements
<1>11. Pieces(o) \in Seq(Message)
  BY <1>3, <1>7, <1>8
<1> QED  BY <1>7, <1>10, <1>11 DEF Good

LEMMA AdvanceId ==
  ASSUME NEW o \in Reader
  PROVE  /\ Advance(o).id \in {o.id, 0}
         /\ LastOfItem(o) /\ LastItem(o) => Advance(o).id = 0
BY DEF Advance, Reader, NoReader

LEMMA SendNextAgrees ==
  ASSUME FullType, Slots, Agree, NEW n \in Node, NEW rd \in BOOLEAN,
         NEW op \in BOOLEAN, processNextOutgoingChunk(n, rd, op)
  PROVE  Agree'
<1> DEFINE o == outgoing[n]
           t == o.id
           s == route[t].source
           r == route[t].target
           ms == Pieces(o)
<1>1. UNCHANGED idVars
  BY DEF processNextOutgoingChunk
<1>2. CASE o = NoReader
  BY <1>1, <1>2 DEF processNextOutgoingChunk, Agree, sessionVars, netVars, idVars
<1>3. CASE o # NoReader
  <2>1. o \in Reader /\ t \in Id /\ phase[n][t] = "sending"
    BY <1>3, SlotsSuffice DEF FullType, SessionType, Reader,
                              ResourcesMatchSessions
  <2>2. t \in Sessions(n)
    BY <2>1 DEF Sessions, Live
  <2>3. /\ t \in 1 .. drawn /\ s # r /\ n = s
    BY <2>1, <2>2, SessionEnds DEF Agree
  <2>4. AgreeWith(inbox)
    BY StateTypes DEF Agree, AgreeWith
  <2>5. /\ ms \in Seq(Message)
        /\ \A i \in 1 .. Len(ms) :
             /\ ms[i].id = t /\ ms[i].type \in {"chunk", "itemEnd", "finish"}
             /\ ms[i].type = "finish" => LastOfItem(o) /\ LastItem(o)
    BY <2>1, PiecesOfReader
  <2>6. OtherEnd(n, t) = r /\ n \in {route[t].source, route[t].target}
    BY <2>3 DEF OtherEnd
  <2> HIDE DEF ms
  <2>7. CASE failSession(n, t, << >>, inbox)
    <3>1. << >> \in Seq(Message)
      OBVIOUS
    <3> QED  BY <1>1, <2>1, <2>4, <2>7, <3>1, FailAgrees
  <2>8. CASE ~LastItem(o) /\ failSession(n, t, ms, inbox)
    <3>1. \A i \in 1 .. Len(ms) :
            ms[i].type \in {"chunk", "itemEnd"} /\ ms[i].id = t
      BY <2>5, <2>8
    <3>2. n = route[t].source
      BY <2>3
    <3>3. /\ t \in Id /\ ms \in Seq(Message) /\ t \in Sessions(n)
          /\ outgoing[n].id = t /\ failSession(n, t, ms, inbox)
      BY <2>1, <2>2, <2>5, <2>8
    <3> HIDE DEF t, o
    <3> QED
      BY ONLY FullType, n \in Node, <1>1, <2>4, <3>1, <3>2, <3>3, FailAgrees
  <2>9. CASE /\ outgoing' = [outgoing EXCEPT ![n] = Advance(o)]
             /\ phase' = [phase EXCEPT ![n][t] = PhaseOnceSent(o)]
             /\ Posts(n, OtherEnd(n, t), ms, inbox)
    <3>1. outgoing'[n] = Advance(o)
            /\ \A p \in Node : p # n => outgoing'[p] = outgoing[p]
      BY <2>9 DEF FullType, SessionType
    <3>2. outgoing'[n].id \in {t, 0}
            /\ (LastOfItem(o) /\ LastItem(o) => outgoing'[n].id = 0)
      BY <2>1, <3>1, AdvanceId
    <3>3. OnlyAt(phase, outgoing, phase', outgoing', n, t, "sending")
      <4>1. \A u \in Id : u # 0
        BY DEF Id
      <4> QED  BY <2>9, <3>1, <3>2, <4>1 DEF OnlyAt, PhaseOnceSent
    <3>4. phase'[n][t] = "sending"
      BY <2>1, <2>9 DEF PhaseOnceSent, FullType, SessionType
    <3>5. /\ Ends(phase', outgoing', route, drawn)
          /\ Mail(phase', outgoing', route, drawn, upstream, inbox)
      BY <2>1, <2>3, <2>4, <3>3, SourceMoves
    <3>6. t # 0
      BY <2>1 DEF Id
    <3>7. ASSUME NEW m, m.id = t, m.type \in {"chunk", "itemEnd", "finish"},
                 m.type = "finish" => LastOfItem(o) /\ LastItem(o)
          PROVE  Sound(phase', outgoing', route, drawn, m, OtherEnd(n, t))
      BY <2>3, <2>6, <3>2, <3>4, <3>6, <3>7 DEF Sound, Token
    <3>8. \A i \in 1 .. Len(ms) :
            /\ ms[i].id = t /\ ms[i].type \notin {"request", "response"}
            /\ Sound(phase', outgoing', route, drawn, ms[i], OtherEnd(n, t))
      BY <2>5, <3>7
    <3>9. Mailable(upstream, inbox, ms)
      BY <2>5 DEF Mailable, Token
    <3>10. inbox \in [Node -> Seq(Message)] /\ Alone(upstream, inbox)
      BY <2>4 DEF AgreeWith
    <3>11. Posts(n, OtherEnd(n, t), ms, inbox) /\ ms \in Seq(Message)
             /\ t \in Id
      BY <2>1, <2>5, <2>9
    <3> HIDE DEF t
    <3> QED
      BY ONLY FullType, <1>1, n \in Node, <2>6, <3>5, <3>8, <3>9, <3>10, <3>11,
         SendAgrees
  <2> QED  BY <1>3, <2>7, <2>8, <2>9 DEF processNextOutgoingChunk, ms
<1> QED  BY <1>2, <1>3

LEMMA HandleDataAgrees ==
  ASSUME FullType, Agree, NEW n \in Node, NEW w \in BOOLEAN, handleData(n, w)
  PROVE  Agree'
<1> DEFINE m == Head(inbox[n])
           t == m.id
           in == Taken(n)
           s == route[t].source
           r == route[t].target
<1>1. /\ inbox[n] # << >> /\ m.type \in {"begin", "chunk", "itemEnd", "finish"}
      /\ UNCHANGED idVars
  BY DEF handleData, Receives
<1>2. /\ AgreeWith(in)
      /\ Sound(phase, outgoing, route, drawn, m, n) /\ m \in Message
  BY <1>1, Takes
<1>3. CASE Ignores(n)
  BY <1>1, <1>3, IgnoresAgrees
<1>4. CASE t \in Sessions(n) /\ r = n /\ ~Ignores(n)
  <2>1. /\ t \in 1 .. drawn /\ t \in Id /\ s # r
        /\ phase[n][t] \in {"awaitingData", "receiving"}
    BY <1>2, <1>4, SessionEnds DEF AgreeWith
  <2>2. /\ in \in [Node -> Seq(Message)] /\ Alone(upstream, in)
        /\ phase[n][t] \notin Ended /\ phase[n][t] # "none"
    BY <1>2, <2>1 DEF AgreeWith, Ended
  <2>3. OtherEnd(n, t) = s /\ n \in {route[t].source, route[t].target}
    BY <1>4, <2>1 DEF OtherEnd
  <2>4. CASE failSession(n, t, << >>, in)
    <3>1. << >> \in Seq(Message) /\ n # route[t].source
      BY <1>4, <2>1
    <3> HIDE DEF in, t
    <3> QED  BY <1>1, <1>2, <2>1, <2>4, <3>1, FailAgrees
  <2>5. CASE /\ m.type = "finish"
             /\ Posts(n, OtherEnd(n, t), <<Control("completed", t)>>, in)
             /\ Closes(n, t, "completed")
    <3>1. /\ OnlyAt(phase, outgoing, phase', outgoing', n, t, "completed")
          /\ phase'[n][t] = "completed"
      BY <2>1, <2>5, ClosesOnly
    <3>2. /\ phase[s][t] \notin {"awaitingDecision", "failed"}
          /\ outgoing[s].id # t
      BY <1>2, <1>4, <2>1, <2>5 DEF Sound
    <3>3. /\ Ends(phase', outgoing', route, drawn)
          /\ Mail(phase', outgoing', route, drawn, upstream, in)
      <4>1. n = route[t].target
        BY <1>4
      <4> HIDE DEF in, t
      <4> QED  BY <1>2, <2>1, <2>2, <3>1, <3>2, <4>1, TargetMoves
    <3> DEFINE a == Control("completed", t)
    <3>4. a \in Message /\ a.id = t /\ a.type = "completed"
      BY <2>1, ControlIsMessage DEF Control
    <3>5. Posts(n, OtherEnd(n, t), <<a>>, in)
      BY <2>5
    <3> HIDE DEF a
    <3>6. Sound(phase', outgoing', route, drawn, a, OtherEnd(n, t))
      BY <1>4, <2>1, <2>3, <3>1, <3>4 DEF Sound, Token
    <3>7. a.type \notin {"request", "response"} /\ a.type \notin Token
      BY <3>4 DEF Token
    <3> HIDE DEF t, in
    <3> QED
      BY ONLY FullType, n \in Node, <1>1, <2>1, <2>2, <2>3, <3>3, <3>4, <3>5,
         <3>6, <3>7, TellAgrees
  <2>6. CASE /\ phase' = [phase EXCEPT ![n][t] = "receiving"]
             /\ inbox' = in /\ UNCHANGED <<upstream, outgoing>>
    <3>1. OnlyAt(phase, outgoing, phase', outgoing', n, t, "receiving")
      BY <2>6 DEF OnlyAt
    <3>2. n = route[t].target
      BY <1>4
    <3>3. /\ Ends(phase', outgoing', route, drawn)
          /\ Mail(phase', outgoing', route, drawn, upstream, in)
      <4> HIDE DEF in, t
      <4> QED  BY <1>2, <2>1, <2>2, <3>1, <3>2, TargetMoves
    <3> QED  BY <1>1, <2>2, <2>6, <3>3 DEF Agree, idVars
  <2> QED  BY <1>4, <2>4, <2>5, <2>6 DEF handleData
<1> QED  BY <1>3, <1>4 DEF handleData

LEMMA HandleResultAgrees ==
  ASSUME FullType, Agree, NEW n \in Node, handleResult(n)
  PROVE  Agree'
<1> DEFINE m == Head(inbox[n])
           t == m.id
           in == Taken(n)
           s == route[t].source
           r == route[t].target
<1>1. /\ inbox[n] # << >> /\ m.type \in {"completed", "failed"}
      /\ UNCHANGED idVars
  BY DEF handleResult, Receives
<1>2. /\ AgreeWith(in)
      /\ Sound(phase, outgoing, route, drawn, m, n) /\ m \in Message
  BY <1>1, Takes
<1>3. CASE Ignores(n)
  BY <1>1, <1>3, IgnoresAgrees
<1>4. CASE t \in Sessions(n) /\ Closes(n, t, m.type)
             /\ inbox' = in /\ upstream' = upstream
  <2>1. /\ t \in 1 .. drawn /\ t \in Id /\ s # r
        /\ \/ n = s /\ phase[n][t] \in {"awaitingDecision", "sending"}
           \/ n = r /\ phase[n][t] \in {"awaitingData", "receiving"}
    BY <1>2, <1>4, SessionEnds DEF AgreeWith
  <2>2. /\ OnlyAt(phase, outgoing, phase', outgoing', n, t, m.type)
        /\ outgoing'[n].id # t
    BY <1>4, <2>1, ClosesOnly
  <2>3. /\ Ends(phase', outgoing', route, drawn)
        /\ Mail(phase', outgoing', route, drawn, upstream, in)
    <3>1. CASE n = s /\ m.type = "completed"
      <4>1. phase[r][t] = "completed" /\ n = route[t].source
        BY <1>2, <3>1 DEF Sound
      <4>2. OnlyAt(phase, outgoing, phase', outgoing', n, t, "completed")
        BY <2>2, <3>1
      <4> HIDE DEF in, t
      <4> QED  BY <1>2, <2>1, <2>2, <4>1, <4>2, SourceMoves
    <3>2. CASE n = s /\ m.type = "failed"
      <4>1. phase[r][t] = "failed" /\ n = route[t].source
        BY <1>2, <2>1, <3>2 DEF Sound
      <4>2. OnlyAt(phase, outgoing, phase', outgoing', n, t, "failed")
        BY <2>2, <3>2
      <4> HIDE DEF in, t
      <4> QED  BY <1>2, <2>1, <2>2, <4>1, <4>2, SourceMoves
    <3>3. CASE n = r
      <4>1. m.type = "failed" /\ n = route[t].target
        BY <1>1, <1>2, <2>1, <3>3 DEF Sound
      <4>2. OnlyAt(phase, outgoing, phase', outgoing', n, t, "failed")
        BY <2>2, <4>1
      <4>3. phase[n][t] \notin Ended /\ phase[n][t] # "none"
        BY <2>1, <3>3 DEF Ended
      <4> HIDE DEF in, t
      <4> QED  BY <1>2, <2>1, <4>1, <4>2, <4>3, TargetMoves
    <3> QED  BY <1>1, <2>1, <3>1, <3>2, <3>3
  <2> QED  BY <1>1, <1>2, <1>4, <2>3 DEF Agree, AgreeWith, idVars
<1> QED  BY <1>1, <1>3, <1>4 DEF handleResult

LEMMA AppendJoins ==
  ASSUME NEW q \in Seq(Message), NEW m \in Message
  PROVE  Append(q, m) = q \o <<m>>
OBVIOUS

\* Drops on edges, and the server's answers.
LEMMA EdgesAgree ==
  ASSUME FullType, Agree,
         \/ \E c \in Conn : DropOnPrimary(c) \/ DropOnClient(c)
         \/ \E n \in Node : handleEdgeMessage(n)
         \/ \E c \in Conn, n \in Node \union {NoScreen} :
              handleFileTransferEdge(c, n)
  PROVE  Agree'
<1>1. ASSUME NEW c \in Conn, DropOnPrimary(c) PROVE Agree'
  <2>1. c \in Node /\ Primary \in Node /\ Primary # c
    BY PrimaryIsNoClient DEF Node
  <2>2. AgreeWith(inbox)
    BY StateTypes DEF Agree, AgreeWith
  <2>3. offerLocalFiles(Primary, c, 0, inbox)
    BY <1>1 DEF DropOnPrimary
  <2> QED  BY <2>1, <2>2, <2>3, OfferAgrees
<1>2. ASSUME NEW c \in Conn, DropOnClient(c) PROVE Agree'
  <2> DEFINE q == Request(requests + 1)
             ms == <<q>>
  <2>1. q.type = "request" /\ q \in Message
    <3>1. requests + 1 \in 0 .. MaxRequests
      BY <1>2, BoundAssumption DEF DropOnClient, FullType, EdgeType
    <3> QED  BY <3>1 DEF Request, Message
  <2>2. /\ upstream' = [upstream EXCEPT ![c] = Append(@, q)]
        /\ phase' = phase /\ outgoing' = outgoing /\ route' = route
        /\ drawn' = drawn /\ inbox' = inbox
    BY <1>2 DEF DropOnClient, sessionVars, idVars
  <2> HIDE DEF q
  <2>3. SoundUp(phase, outgoing, route, drawn, q, c)
    BY <2>1 DEF SoundUp
  <2>4. ms \in Seq(Message) /\ \A i \in 1 .. Len(ms) : ms[i] = q
    BY <2>1
  <2>5. upstream' = [upstream EXCEPT ![c] = @ \o ms]
    <3>1. upstream[c] \in Seq(Message)
      BY DEF FullType, NetType
    <3> QED  BY <2>1, <2>2, <3>1, AppendJoins
  <2> HIDE DEF ms
  <2>6. \A i \in 1 .. Len(ms) : SoundUp(phase, outgoing, route, drawn, ms[i], c)
    BY <2>3, <2>4
  <2>7. Mailable(upstream, inbox, ms)
    BY <2>1, <2>4 DEF Mailable, Token
  <2>8. /\ Mail(phase, outgoing, route, drawn, upstream, inbox)
        /\ Alone(upstream, inbox) /\ upstream \in [Conn -> Seq(Message)]
        /\ inbox \in [Node -> Seq(Message)] /\ ms \in Seq(Message)
    BY <2>4, StateTypes DEF Agree
  <2>9. /\ Mail(phase, outgoing, route, drawn, upstream', inbox)
        /\ Alone(upstream', inbox)
    BY ONLY <2>5, <2>6, <2>7, <2>8, c \in Conn, PutUp
  <2> QED  BY <2>2, <2>9 DEF Agree
<1>3. ASSUME NEW n \in Node, handleEdgeMessage(n) PROVE Agree'
  <2> DEFINE m == Head(inbox[n])
  <2>1. inbox[n] # << >> /\ m.type = "response"
    BY <1>3 DEF handleEdgeMessage, Receives
  <2>2. /\ AgreeWith(Taken(n)) /\ m \in Message
        /\ Sound(phase, outgoing, route, drawn, m, n)
    BY <2>1, Takes
  <2>3. m.target # n /\ m.target \in Node \union {NoScreen}
    BY <2>1, <2>2, MessageFields DEF Sound
  <2>4. CASE Ignores(n) /\ UNCHANGED idVars
    BY <2>1, <2>4, IgnoresAgrees
  <2>5. CASE m.target # NoScreen
               /\ offerLocalFiles(n, m.target, pendingEdge[n], Taken(n))
    BY <2>2, <2>3, <2>5, OfferAgrees
  <2> QED  BY <1>3, <2>4, <2>5 DEF handleEdgeMessage
<1>4. ASSUME NEW c \in Conn, NEW to \in Node \union {NoScreen},
             handleFileTransferEdge(c, to)
      PROVE  Agree'
  <2> DEFINE m == Response(Head(upstream[c]).request, to)
             ms == <<m>>
             in == inbox
  <2>1. /\ upstream[c] # << >> /\ Head(upstream[c]).type = "request" /\ to # c
        /\ upstream' = [upstream EXCEPT ![c] = Tail(@)]
        /\ inbox' = [inbox EXCEPT ![c] = Append(@, m)]
        /\ phase' = phase /\ outgoing' = outgoing /\ route' = route
        /\ drawn' = drawn
    BY <1>4 DEF handleFileTransferEdge, sessionVars, idVars
  <2>2. /\ Mail(phase, outgoing, route, drawn, upstream, inbox)
        /\ Alone(upstream, inbox) /\ upstream \in [Conn -> Seq(Message)]
        /\ inbox \in [Node -> Seq(Message)] /\ c \in Node
    BY StateTypes DEF Agree, Node
  <2>3. /\ Mail(phase, outgoing, route, drawn, upstream', inbox)
        /\ Alone(upstream', inbox) /\ upstream' \in [Conn -> Seq(Message)]
    BY ONLY <2>1, <2>2, c \in Conn, TakeUp
  <2>4. m \in Message /\ m.type = "response" /\ m.target = to
    <3>1. Head(upstream[c]) \in Message
      BY <2>1, <2>2
    <3>2. Head(upstream[c]).request \in 0 .. MaxRequests
      BY <2>1, <3>1, MessageFields
    <3> QED  BY <3>2 DEF Response, Message
  <2> HIDE DEF m
  <2>5. Sound(phase, outgoing, route, drawn, m, c)
    BY <2>1, <2>4 DEF Sound, Token
  <2>6. ms \in Seq(Message) /\ \A i \in 1 .. Len(ms) : ms[i] = m
    BY <2>4
  <2>7. inbox' = [inbox EXCEPT ![c] = @ \o ms]
    <3>1. inbox[c] \in Seq(Message)
      BY <2>2
    <3> QED  BY <2>1, <2>4, <3>1, AppendJoins
  <2> HIDE DEF ms
  <2>8. \A i \in 1 .. Len(ms) : Sound(phase, outgoing, route, drawn, ms[i], c)
    BY <2>5, <2>6
  <2>9. Mailable(upstream', inbox, ms)
    BY <2>4, <2>6 DEF Mailable, Token
  <2>10. /\ Mail(phase, outgoing, route, drawn, upstream', inbox')
         /\ Alone(upstream', inbox')
    BY ONLY <2>2, <2>3, <2>6, <2>7, <2>8, <2>9, PutIn
  <2> QED  BY <2>1, <2>10 DEF Agree
<1> QED  BY <1>1, <1>2, <1>3, <1>4

\* The server routes a message, if its target runs a service.
LEMMA RouteAgrees ==
  ASSUME FullType, Agree, NEW c \in Conn, routeFileTransfer(c)
  PROVE  Agree'
<1> DEFINE m == Head(upstream[c])
           to == OtherEnd(c, m.id)
           ms == <<m>>
<1>1. /\ upstream[c] # << >> /\ m.type # "request"
      /\ upstream' = [upstream EXCEPT ![c] = Tail(@)]
      /\ inbox' = inbox \/ inbox' = [inbox EXCEPT ![to] = Append(@, m)]
      /\ phase' = phase /\ outgoing' = outgoing /\ route' = route
      /\ drawn' = drawn
  BY DEF routeFileTransfer, sessionVars, idVars
<1>2. /\ Mail(phase, outgoing, route, drawn, upstream, inbox)
      /\ Alone(upstream, inbox) /\ upstream \in [Conn -> Seq(Message)]
      /\ inbox \in [Node -> Seq(Message)]
  BY StateTypes DEF Agree
<1>3. m \in Message
  BY <1>1, <1>2
<1>4. /\ Mail(phase, outgoing, route, drawn, upstream', inbox)
      /\ Alone(upstream', inbox) /\ upstream' \in [Conn -> Seq(Message)]
      /\ SoundUp(phase, outgoing, route, drawn, m, c)
      /\ m.type \in Token => NoToken(upstream', inbox, m.id)
  <2>1. upstream[c] # << >> /\ upstream' = [upstream EXCEPT ![c] = Tail(@)]
    BY <1>1
  <2> QED  BY ONLY <1>2, <2>1, c \in Conn, TakeUp
<1>5. Sound(phase, outgoing, route, drawn, m, to) /\ m.type # "response"
  <2>1. m.type # "request" /\ SoundUp(phase, outgoing, route, drawn, m, c)
    BY <1>1, <1>4
  <2>2. Other(route, c, m.id) = to
    BY OtherIsOtherEnd
  <2> HIDE DEF m, to
  <2> QED  BY <2>1, <2>2 DEF SoundUp
<1>6. m.id \in Id /\ to \in Node
  <2>1. m.id \in Id
    BY <1>1, <1>3, <1>5, MessageFields
  <2>2. c \in Node
    BY DEF Node
  <2> QED  BY <2>1, <2>2, OtherEndType DEF FullType
<1>7. CASE inbox' = inbox
  BY <1>1, <1>4, <1>7 DEF Agree
<1>8. CASE inbox' = [inbox EXCEPT ![to] = Append(@, m)]
  <2> HIDE DEF m, to
  <2>1. ms \in Seq(Message) /\ ms = <<m>> /\ \A i \in 1 .. Len(ms) : ms[i] = m
    BY <1>3
  <2>2. inbox' = [inbox EXCEPT ![to] = @ \o ms]
    <3>1. inbox[to] \in Seq(Message)
      BY <1>2, <1>6
    <3> QED  BY <1>3, <1>8, <3>1, AppendJoins
  <2> HIDE DEF ms
  <2>3. \A i \in 1 .. Len(ms) : Sound(phase, outgoing, route, drawn, ms[i], to)
    BY <1>5, <2>1
  <2>4. Mailable(upstream', inbox, ms)
    BY <1>3, <1>4, <2>1 DEF Mailable
  <2>5. ms \in Seq(Message)
    BY <2>1
  <2>6. /\ Mail(phase, outgoing, route, drawn, upstream', inbox')
        /\ Alone(upstream', inbox')
    BY ONLY <1>2, <1>4, <1>6, <2>2, <2>3, <2>4, <2>5, PutIn
  <2> QED  BY <1>1, <2>6 DEF Agree
<1> QED  BY <1>1, <1>7, <1>8

LEMMA DisconnectAgrees ==
  ASSUME FullType, Agree, NEW c \in Conn, Disconnect(c)
  PROVE  Agree'
<1>1. /\ phase' = [phase EXCEPT
                     ![c] = [t \in Id |-> IF phase[c][t] \in Live THEN "gone"
                                          ELSE phase[c][t]]]
      /\ outgoing' = [outgoing EXCEPT ![c] = NoReader]
      /\ upstream' = [upstream EXCEPT ![c] = << >>]
      /\ inbox' = [inbox EXCEPT ![c] = << >>]
      /\ route' = route /\ drawn' = drawn
  BY DEF Disconnect, idVars
<1>2. /\ SessionsOf(phase, outgoing, route, drawn) /\ c \in Node
      /\ upstream \in [Conn -> Seq(Message)] /\ inbox \in [Node -> Seq(Message)]
      /\ Ends(phase, outgoing, route, drawn)
      /\ Mail(phase, outgoing, route, drawn, upstream, inbox)
  BY StateTypes DEF Agree, Node
<1>3. /\ Ends(phase', outgoing', route, drawn)
      /\ Mail(phase', outgoing', route, drawn, upstream, inbox)
  <2>1. /\ outgoing' = [outgoing EXCEPT ![c] = NoReader]
        /\ phase' = [phase EXCEPT
                       ![c] = [t \in Id |-> IF phase[c][t] \in Live THEN "gone"
                                            ELSE phase[c][t]]]
    BY <1>1
  <2> QED  BY ONLY <1>2, <2>1, GoneChange
<1>4. /\ \A d \in Conn : upstream'[d] = upstream[d] \/ Len(upstream'[d]) = 0
      /\ \A n \in Node : inbox'[n] = inbox[n] \/ Len(inbox'[n]) = 0
  BY <1>1, <1>2
<1>5. Mail(phase', outgoing', route, drawn, upstream', inbox')
  BY <1>3, <1>4 DEF Mail
<1>6. \A q : Len(q) = 0 => Single(q) /\ \A t : ~Tok(q, t)
  BY DEF Single, Tok
<1>7. Alone(upstream', inbox')
  <2>1. \A d \in Conn : /\ Single(upstream'[d])
                        /\ \A t : Tok(upstream'[d], t) => Tok(upstream[d], t)
    BY <1>4, <1>6 DEF Agree, Alone
  <2>2. \A n \in Node : /\ Single(inbox'[n])
                        /\ \A t : Tok(inbox'[n], t) => Tok(inbox[n], t)
    BY <1>4, <1>6 DEF Agree, Alone
  <2>3. Alone(upstream, inbox)
    BY DEF Agree
  <2> QED  BY ONLY <2>1, <2>2, <2>3, AloneShrinks
<1> QED  BY <1>1, <1>3, <1>5, <1>7 DEF Agree

LEMMA AgreeKept ==
  ASSUME Agree, UNCHANGED <<idVars, sessionVars, netVars>> PROVE Agree'
BY DEF Agree, idVars, sessionVars, netVars

LEMMA AgreeStep == FullType /\ Slots /\ Agree /\ [Next]_vars => Agree'
<1> SUFFICES ASSUME FullType, Slots, Agree, [Next]_vars PROVE Agree'
  OBVIOUS
<1>1. ASSUME NEW c \in Conn, DropOnPrimary(c) PROVE Agree'
  BY <1>1, EdgesAgree
<1>2. ASSUME NEW c \in Conn, DropOnClient(c) PROVE Agree'
  BY <1>2, EdgesAgree
<1>3. ASSUME NEW c \in Conn, expirePendingEdgeRequest(c) PROVE Agree'
  BY <1>3, AgreeKept DEF expirePendingEdgeRequest
<1>4. ASSUME NEW n \in Node, handleEdgeMessage(n) PROVE Agree'
  BY <1>4, EdgesAgree
<1>5. ASSUME NEW n \in Node, NEW w \in BOOLEAN, handleOffer(n, w) PROVE Agree'
  BY <1>5, HandleOfferAgrees
<1>6. ASSUME NEW n \in Node, NEW r \in BOOLEAN, handleDecision(n, r)
      PROVE  Agree'
  BY <1>6, HandleDecisionAgrees
<1>7. ASSUME NEW n \in Node, NEW r \in BOOLEAN, NEW op \in BOOLEAN,
             processNextOutgoingChunk(n, r, op)
      PROVE  Agree'
  BY <1>7, SendNextAgrees
<1>8. ASSUME NEW n \in Node, NEW w \in BOOLEAN, handleData(n, w) PROVE Agree'
  BY <1>8, HandleDataAgrees
<1>9. ASSUME NEW n \in Node, handleResult(n) PROVE Agree'
  BY <1>9, HandleResultAgrees
<1>10. ASSUME NEW c \in Conn, routeFileTransfer(c) PROVE Agree'
  BY <1>10, RouteAgrees
<1>11. ASSUME NEW c \in Conn, NEW n \in Node \union {NoScreen},
              handleFileTransferEdge(c, n)
       PROVE  Agree'
  BY <1>11, EdgesAgree
<1>12. ASSUME NEW c \in Conn, Connect(c) PROVE Agree'
  BY <1>12, AgreeKept DEF Connect
<1>13. ASSUME NEW c \in Conn, Disconnect(c) PROVE Agree'
  BY <1>13, DisconnectAgrees
<1>14. ASSUME NEW n \in Node, Expire(n) PROVE Agree'
  BY <1>14, AgreeKept DEF Expire
<1>15. ASSUME UNCHANGED vars PROVE Agree'
  BY <1>15, AgreeKept DEF vars, idVars, sessionVars, netVars
<1> QED
  BY <1>1, <1>2, <1>3, <1>4, <1>5, <1>6, <1>7, <1>8, <1>9, <1>10, <1>11, <1>12,
     <1>13, <1>14, <1>15 DEF Next, Rests

LEMMA InitAgrees == Init => Agree
<1> SUFFICES ASSUME Init PROVE Agree
  OBVIOUS
<1>1. /\ drawn = 0 /\ \A c \in Conn : upstream[c] = << >>
      /\ \A n \in Node : inbox[n] = << >> /\ \A t \in Id : phase[n][t] = "none"
  BY DEF Init
<1>2. \A t : t \notin 1 .. drawn
  BY <1>1
<1>3. Ends(phase, outgoing, route, drawn)
  BY <1>1, <1>2 DEF Ends, Roles
<1>4. Mail(phase, outgoing, route, drawn, upstream, inbox)
  BY <1>1 DEF Mail
<1>5. Single(<< >>) /\ \A t : ~Tok(<< >>, t)
  BY DEF Single, Tok
<1>6. Alone(upstream, inbox)
  BY <1>1, <1>5 DEF Alone
<1> QED  BY <1>3, <1>4, <1>6 DEF Agree

\* The two ends of a transfer never disagree on how it ended, though messages
\* are dropped by the server, licences end in between and connections are lost:
\* the source takes it for completed only if the target has published every
\* file, and for failed or rejected only if the target has not and will not
\* (handleDecision, handleData and handleResult of FileTransferService.cpp).
THEOREM OutcomesAreAgreed == Spec => []OutcomesAgree
<1>1. Init => FullType /\ Slots /\ Agree
  BY InitType, InitSlots, InitAgrees
<1>2. FullType /\ Slots /\ Agree /\ [Next]_vars => (FullType /\ Slots /\ Agree)'
  BY TypeStep, SlotsStep, AgreeStep
<1>3. Agree => OutcomesAgree
  BY DEF Agree, Ends, Beliefs, OutcomesAgree
<1> QED  BY <1>1, <1>2, <1>3, PTL DEF Spec

-----------------------------------------------------------------------------
(* Data in their turn.  A transfer's messages of data carry marks that rise *)
(* from its begin to its finish.  Those under way to its writer are one     *)
(* run: every mark is the one the writer expects or follows on another in   *)
(* front of it, and none is there twice.                                    *)

DataTypes == {"begin", "chunk", "itemEnd", "finish"}
IsData(m, t) == m.type \in DataTypes /\ m.id = t

Mark(m) ==
  CASE m.type = "begin" -> <<0, 0>>
    [] m.type = "chunk" -> <<m.item + 1, m.chunk>>
    [] m.type = "itemEnd" -> <<m.item + 1, Chunks>>
    [] m.type = "finish" -> <<Items + 1, 0>>
Succ(p) == IF p[1] = 0 \/ p[2] = Chunks THEN <<p[1] + 1, 0>>
           ELSE <<p[1], p[2] + 1>>
Below(p, e) == p[1] < e[1] \/ (p[1] = e[1] /\ p[2] < e[2])

\* What a writer takes next, and what a reader reads next.
Expected(w) == IF w.state = "awaitingBegin" THEN <<0, 0>>
               ELSE <<w.item + 1, w.chunk>>
Coming(o) == <<o.item + 1, o.chunk>>

\* The marks of t in a queue, and those that may follow on marks M.
Marks(q, t) == {Mark(q[i]) : i \in {j \in 1 .. Len(q) : IsData(q[j], t)}}
After(M) == {Succ(p) : p \in M}

\* The data of t in queue q are a run that starts within S.
Run(q, t, S) ==
  /\ \A i, j \in 1 .. Len(q) :
       IsData(q[i], t) /\ IsData(q[j], t) /\ Mark(q[i]) = Mark(q[j]) => i = j
  /\ \A i \in 1 .. Len(q) : IsData(q[i], t) =>
       \/ Mark(q[i]) \in S
       \/ \E h \in 1 .. i - 1 : IsData(q[h], t) /\ Mark(q[i]) = Succ(Mark(q[h]))

\* Queues q1 and then q2 lead from mark p of the writer to those in E.
Flow(q1, q2, t, p, E) ==
  /\ Run(q1, t, {p})
  /\ Run(q2, t, {p} \union After(Marks(q1, t)))
  /\ Marks(q1, t) \intersect Marks(q2, t) = {}
  /\ \A e \in E :
       /\ \A x \in Marks(q1, t) \union Marks(q2, t) : Below(x, e)
       /\ e \in {p} \union After(Marks(q1, t) \union Marks(q2, t))

\* What a source has sent and the server has yet to route.
Unrouted(up, n) == IF n \in Conn THEN up[n] ELSE << >>
\* What the source of t has yet to send.
Due(t) == LET o == outgoing[route[t].source]
          IN IF o.id = t THEN {Coming(o)} ELSE {}

NoData(t) == /\ Marks(inbox[route[t].target], t) = {}
             /\ Marks(Unrouted(upstream, route[t].source), t) = {}
Turn(t) ==
  LET s == route[t].source
      r == route[t].target
  IN /\ \/ NoData(t)
        \/ NoToken(upstream, inbox, t) /\ phase[s][t] # "awaitingDecision"
     /\ incoming[r].id = t =>
          /\ Flow(inbox[r], Unrouted(upstream, s), t, Expected(incoming[r]),
                  Due(t))
          /\ phase[s][t] = "awaitingDecision" =>
               incoming[r].state = "awaitingBegin"

\* The place of a writer goes with its state.
InPlace(w) ==
  CASE w.state = "awaitingBegin" -> w.item = 0 /\ w.chunk = 0
    [] w.state = "receiving" -> w.item < Items
    [] w.state = "readyToFinish" -> w.item = Items /\ w.chunk = 0
\* A chunk is one of those of its file.
Counted(q) == \A i \in 1 .. Len(q) : q[i].type = "chunk" => q[i].chunk < Chunks

\* A client the server does not serve has nothing under way.
Unlinked(c) ==
  /\ upstream[c] = << >> /\ inbox[c] = << >>
  /\ outgoing[c] = NoReader /\ incoming[c] = NoWriter

Placed == \A n \in Node : incoming[n] = NoWriter \/ InPlace(incoming[n])
AllCounted == /\ \A c \in Conn : Counted(upstream[c])
              /\ \A n \in Node : Counted(inbox[n])
Linked == \A c \in Conn \ connected : Unlinked(c)
Turns == (\A t \in 1 .. drawn : Turn(t)) /\ Placed /\ AllCounted /\ Linked

LEMMA InMarks ==
  ASSUME NEW q, NEW t
  PROVE  \A x : x \in Marks(q, t) <=>
           \E i \in 1 .. Len(q) : IsData(q[i], t) /\ x = Mark(q[i])
BY DEF Marks

LEMMA RunWithin ==
  ASSUME NEW q, NEW t, NEW S, NEW S2, Run(q, t, S),
         \A x \in S : x \in Marks(q, t) => x \in S2
  PROVE  Run(q, t, S2)
BY InMarks DEF Run

LEMMA EmptyRun == \A t, S : Run(<< >>, t, S) /\ Marks(<< >>, t) = {}
BY DEF Run, Marks

\* A queue whose head is taken.
LEMMA TailMarks ==
  ASSUME NEW q \in Seq(Message), q # << >>, NEW t
  PROVE  Marks(q, t) = Marks(Tail(q), t)
                         \union (IF IsData(Head(q), t) THEN {Mark(Head(q))} ELSE {})
<1> DEFINE T == Tail(q)
           m == Head(q)
<1>1. /\ Len(q) \in Nat \ {0} /\ Len(T) = Len(q) - 1 /\ m = q[1]
      /\ \A i \in 1 .. Len(T) : T[i] = q[i + 1]
  OBVIOUS
<1> HIDE DEF T, m
<1>2. /\ 1 \in 1 .. Len(q)
      /\ \A i \in 1 .. Len(T) : i + 1 \in 1 .. Len(q)
      /\ \A i \in 1 .. Len(q) : i = 1 \/ (i - 1 \in 1 .. Len(T) /\ T[i - 1] = q[i])
  BY <1>1
<1>3. ASSUME NEW x \in Marks(T, t)
      PROVE  x \in Marks(q, t)
  <2>1. PICK i \in 1 .. Len(T) : IsData(T[i], t) /\ x = Mark(T[i])
    BY <1>3, InMarks
  <2>2. i + 1 \in 1 .. Len(q) /\ T[i] = q[i + 1]
    BY <1>1, <1>2
  <2> QED  BY <2>1, <2>2, InMarks
<1>4. ASSUME NEW x \in Marks(q, t)
      PROVE  x \in Marks(T, t) \/ (IsData(m, t) /\ x = Mark(m))
  <2>1. PICK i \in 1 .. Len(q) : IsData(q[i], t) /\ x = Mark(q[i])
    BY <1>4, InMarks
  <2>2. i = 1 \/ (i - 1 \in 1 .. Len(T) /\ T[i - 1] = q[i])
    BY <1>2
  <2> QED  BY <1>1, <2>1, <2>2, InMarks
<1>5. IsData(m, t) => Mark(m) \in Marks(q, t)
  BY <1>1, <1>2, InMarks
<1>6. \A x : x \in Marks(q, t) <=>
             x \in Marks(T, t) \union (IF IsData(m, t) THEN {Mark(m)} ELSE {})
  BY <1>3, <1>4, <1>5
<1> QED  BY <1>6 DEF T, m

LEMMA TailRun ==
  ASSUME NEW q \in Seq(Message), q # << >>, NEW t, NEW S, Run(q, t, S)
  PROVE  /\ ~IsData(Head(q), t) => Run(Tail(q), t, S)
         /\ IsData(Head(q), t) =>
              /\ Mark(Head(q)) \in S
              /\ Run(Tail(q), t, {Succ(Mark(Head(q)))} \union (S \ {Mark(Head(q))}))
              /\ Mark(Head(q)) \notin Marks(Tail(q), t)
<1> DEFINE T == Tail(q)
           m == Head(q)
<1>1. /\ Len(q) \in Nat \ {0} /\ Len(T) = Len(q) - 1 /\ m = q[1]
      /\ \A i \in 1 .. Len(T) : T[i] = q[i + 1]
  OBVIOUS
<1> HIDE DEF T, m
<1>2. /\ 1 \in 1 .. Len(q)
      /\ \A i \in 1 .. Len(T) : i + 1 \in 1 .. Len(q) /\ i + 1 # 1
  BY <1>1
<1>3. \A i, j \in 1 .. Len(T) :
        IsData(T[i], t) /\ IsData(T[j], t) /\ Mark(T[i]) = Mark(T[j]) => i = j
  <2> SUFFICES ASSUME NEW i \in 1 .. Len(T), NEW j \in 1 .. Len(T),
                      IsData(T[i], t), IsData(T[j], t), Mark(T[i]) = Mark(T[j])
               PROVE  i = j
    OBVIOUS
  <2>1. i + 1 = j + 1
    BY <1>1, <1>2 DEF Run
  <2> QED  BY <2>1
<1>4. ASSUME NEW i \in 1 .. Len(T), IsData(T[i], t)
      PROVE  \/ Mark(T[i]) \in S
             \/ IsData(m, t) /\ Mark(T[i]) = Succ(Mark(m))
             \/ \E h \in 1 .. i - 1 :
                  IsData(T[h], t) /\ Mark(T[i]) = Succ(Mark(T[h]))
  <2>1. i + 1 \in 1 .. Len(q) /\ T[i] = q[i + 1] /\ (i + 1) - 1 = i
    BY <1>1, <1>2
  <2>2. \/ Mark(T[i]) \in S
        \/ \E g \in 1 .. i : IsData(q[g], t) /\ Mark(T[i]) = Succ(Mark(q[g]))
    BY <1>4, <2>1 DEF Run
  <2>3. ASSUME NEW g \in 1 .. i, IsData(q[g], t), Mark(T[i]) = Succ(Mark(q[g])),
               g # 1
        PROVE  g - 1 \in 1 .. i - 1 /\ T[g - 1] = q[g]
    BY <1>1, <2>3
  <2> QED  BY <1>1, <2>2, <2>3
<1>5. CASE ~IsData(m, t)
  <2>1. Run(T, t, S)
    BY <1>3, <1>4, <1>5 DEF Run
  <2> QED  BY <1>5, <2>1 DEF T, m
<1>6. CASE IsData(m, t)
  <2>1. Mark(m) \in S
    BY <1>1, <1>2, <1>6 DEF Run
  <2>2. \A i \in 1 .. Len(T) : IsData(T[i], t) => Mark(T[i]) # Mark(m)
    BY <1>1, <1>2, <1>6 DEF Run
  <2>3. Run(T, t, {Succ(Mark(m))} \union (S \ {Mark(m)}))
    BY <1>3, <1>4, <2>2 DEF Run
  <2>4. Mark(m) \notin Marks(T, t)
    BY <2>2, InMarks
  <2> QED  BY <1>6, <2>1, <2>3, <2>4 DEF T, m
<1> QED  BY <1>5, <1>6

LEMMA JoinMarks ==
  ASSUME NEW q \in Seq(Message), NEW ms \in Seq(Message), NEW t
  PROVE  Marks(q \o ms, t) = Marks(q, t) \union Marks(ms, t)
<1> DEFINE Q == q \o ms
<1>1. /\ Len(q) \in Nat /\ Len(ms) \in Nat /\ Len(Q) = Len(q) + Len(ms)
      /\ \A i \in 1 .. Len(q) : Q[i] = q[i]
      /\ \A i \in 1 .. Len(ms) : Q[Len(q) + i] = ms[i]
  OBVIOUS
<1> HIDE DEF Q
<1>2. /\ \A i \in 1 .. Len(q) : i \in 1 .. Len(Q)
      /\ \A i \in 1 .. Len(ms) : Len(q) + i \in 1 .. Len(Q)
      /\ \A i \in 1 .. Len(Q) :
           \/ i \in 1 .. Len(q)
           \/ i - Len(q) \in 1 .. Len(ms) /\ Q[i] = ms[i - Len(q)]
  <2>1. /\ \A i \in 1 .. Len(q) : i \in 1 .. Len(Q)
        /\ \A i \in 1 .. Len(ms) : Len(q) + i \in 1 .. Len(Q)
    BY <1>1
  <2>2. ASSUME NEW i \in 1 .. Len(Q), i \notin 1 .. Len(q)
        PROVE  i - Len(q) \in 1 .. Len(ms) /\ Len(q) + (i - Len(q)) = i
    BY <1>1, <2>2
  <2> QED  BY <1>1, <2>1, <2>2
<1>3. ASSUME NEW x \in Marks(Q, t) PROVE x \in Marks(q, t) \union Marks(ms, t)
  <2>1. PICK i \in 1 .. Len(Q) : IsData(Q[i], t) /\ x = Mark(Q[i])
    BY <1>3, InMarks
  <2>2. \/ i \in 1 .. Len(q) /\ Q[i] = q[i]
        \/ i - Len(q) \in 1 .. Len(ms) /\ Q[i] = ms[i - Len(q)]
    BY <1>1, <1>2
  <2> QED  BY <2>1, <2>2, InMarks
<1>4. ASSUME NEW x \in Marks(q, t) PROVE x \in Marks(Q, t)
  <2>1. PICK i \in 1 .. Len(q) : IsData(q[i], t) /\ x = Mark(q[i])
    BY <1>4, InMarks
  <2> QED  BY <1>1, <1>2, <2>1, InMarks
<1>5. ASSUME NEW x \in Marks(ms, t) PROVE x \in Marks(Q, t)
  <2>1. PICK i \in 1 .. Len(ms) : IsData(ms[i], t) /\ x = Mark(ms[i])
    BY <1>5, InMarks
  <2> QED  BY <1>1, <1>2, <2>1, InMarks
<1> QED  BY <1>3, <1>4, <1>5 DEF Q

\* A queue at whose end messages are put.
LEMMA JoinRun ==
  ASSUME NEW q \in Seq(Message), NEW ms \in Seq(Message), NEW t, NEW S, NEW S2,
         Run(q, t, S), Run(ms, t, S2),
         \A x \in S2 : x \in Marks(ms, t) => x \in S \union After(Marks(q, t)),
         Marks(q, t) \intersect Marks(ms, t) = {}
  PROVE  Run(q \o ms, t, S)
<1> DEFINE Q == q \o ms
           L == Len(q)
<1>1. /\ L \in Nat /\ Len(ms) \in Nat /\ Len(Q) = L + Len(ms)
      /\ \A i \in 1 .. L : Q[i] = q[i]
      /\ \A i \in 1 .. Len(ms) : Q[L + i] = ms[i]
  OBVIOUS
<1> HIDE DEF Q
<1>2. /\ \A i \in 1 .. Len(Q) : i \notin 1 .. L =>
           i - L \in 1 .. Len(ms) /\ Q[i] = ms[i - L]
  <2> SUFFICES ASSUME NEW i \in 1 .. Len(Q), i \notin 1 .. L
               PROVE  i - L \in 1 .. Len(ms) /\ Q[i] = ms[i - L]
    OBVIOUS
  <2>1. i - L \in 1 .. Len(ms) /\ L + (i - L) = i
    BY <1>1
  <2> QED  BY <1>1, <2>1
<1> HIDE DEF L
<1>3. ASSUME NEW i \in 1 .. Len(Q), NEW j \in 1 .. Len(Q),
             IsData(Q[i], t), IsData(Q[j], t), Mark(Q[i]) = Mark(Q[j])
      PROVE  i = j
  <2>1. CASE i \in 1 .. L /\ j \in 1 .. L
    BY <1>1, <1>3, <2>1 DEF Run, L
  <2>2. CASE i \notin 1 .. L /\ j \notin 1 .. L
    <3>1. i - L = j - L
      BY <1>2, <1>3, <2>2 DEF Run
    <3> QED  BY <1>1, <3>1
  <2>3. ASSUME NEW g \in 1 .. L, NEW h \in 1 .. Len(ms), IsData(q[g], t),
               IsData(ms[h], t)
        PROVE  Mark(q[g]) # Mark(ms[h])
    BY <2>3, InMarks DEF L
  <2>4. CASE i \in 1 .. L /\ j \notin 1 .. L
    BY <1>1, <1>2, <1>3, <2>3, <2>4
  <2>5. CASE i \notin 1 .. L /\ j \in 1 .. L
    BY <1>1, <1>2, <1>3, <2>3, <2>5
  <2> QED  BY <2>1, <2>2, <2>4, <2>5
<1>4. ASSUME NEW i \in 1 .. Len(Q), IsData(Q[i], t)
      PROVE  \/ Mark(Q[i]) \in S
             \/ \E h \in 1 .. i - 1 :
                  IsData(Q[h], t) /\ Mark(Q[i]) = Succ(Mark(Q[h]))
  <2>1. CASE i \in 1 .. L
    <3>1. \/ Mark(q[i]) \in S
          \/ \E h \in 1 .. i - 1 :
               IsData(q[h], t) /\ Mark(q[i]) = Succ(Mark(q[h]))
      BY <1>1, <1>4, <2>1 DEF Run, L
    <3>2. \A h \in 1 .. i - 1 : h \in 1 .. L
      BY <1>1, <2>1
    <3> QED  BY <1>1, <2>1, <3>1, <3>2
  <2>2. CASE i \notin 1 .. L
    <3> DEFINE k == i - L
    <3>1. k \in 1 .. Len(ms) /\ Q[i] = ms[k] /\ k = i - L
      BY <1>2, <2>2
    <3> HIDE DEF k
    <3>2. \/ Mark(ms[k]) \in S2
          \/ \E h \in 1 .. k - 1 :
               IsData(ms[h], t) /\ Mark(ms[k]) = Succ(Mark(ms[h]))
      BY <1>4, <3>1 DEF Run
    <3>3. CASE Mark(ms[k]) \in S2
      <4>1. Mark(ms[k]) \in Marks(ms, t)
        BY <1>4, <3>1, InMarks
      <4>2. Mark(Q[i]) \in S \union After(Marks(q, t))
        BY <3>1, <3>3, <4>1
      <4>3. ASSUME Mark(Q[i]) \in After(Marks(q, t))
            PROVE  \E h \in 1 .. i - 1 :
                     IsData(Q[h], t) /\ Mark(Q[i]) = Succ(Mark(Q[h]))
        <5>1. PICK h \in 1 .. L : IsData(q[h], t) /\ Mark(Q[i]) = Succ(Mark(q[h]))
          BY <4>3, InMarks DEF After, L
        <5>2. h \in 1 .. i - 1
          BY <1>1, <2>2
        <5> QED  BY <1>1, <5>1, <5>2
      <4> QED  BY <4>2, <4>3
    <3>4. ASSUME NEW h \in 1 .. k - 1, IsData(ms[h], t),
                 Mark(ms[k]) = Succ(Mark(ms[h]))
          PROVE  \E g \in 1 .. i - 1 :
                   IsData(Q[g], t) /\ Mark(Q[i]) = Succ(Mark(Q[g]))
      <4>1. h \in 1 .. Len(ms) /\ L + h \in 1 .. i - 1
        BY <1>1, <3>1
      <4>2. Q[L + h] = ms[h]
        BY <1>1, <4>1
      <4> QED  BY <3>1, <3>4, <4>1, <4>2
    <3> QED  BY <3>1, <3>2, <3>3, <3>4
  <2> QED  BY <2>1, <2>2
<1> QED  BY <1>3, <1>4 DEF Run, Q

-----------------------------------------------------------------------------
(* What the queues between the ends of a transfer may go through.           *)

\* To transfer t, queue q2 is what q is.
Like(q, q2, t) == /\ Marks(q2, t) = Marks(q, t)
                  /\ \A S : Run(q, t, S) => Run(q2, t, S)

LEMMA MarkType ==
  ASSUME NEW m \in Message, NEW t, IsData(m, t)
  PROVE  Mark(m) \in Int \X Int
<1>1. Items \in Int /\ Chunks \in Int
  BY SizeAssumption
<1>2. CASE m.type = "begin"
  BY <1>2 DEF Mark
<1>3. CASE m.type = "chunk"
  <2>1. m.item \in Int /\ m.chunk \in Int
    BY <1>1, <1>3 DEF Message
  <2> QED  BY <1>3, <2>1 DEF Mark
<1>4. CASE m.type = "itemEnd"
  <2>1. m.item \in Int
    BY <1>1, <1>4 DEF Message
  <2> QED  BY <1>1, <1>4, <2>1 DEF Mark
<1>5. CASE m.type = "finish"
  BY <1>1, <1>5 DEF Mark
<1> QED  BY <1>2, <1>3, <1>4, <1>5 DEF IsData, DataTypes

LEMMA MarksType ==
  ASSUME NEW q \in Seq(Message), NEW t PROVE Marks(q, t) \subseteq Int \X Int
<1> SUFFICES ASSUME NEW x \in Marks(q, t) PROVE x \in Int \X Int
  OBVIOUS
<1>1. PICK i \in 1 .. Len(q) : IsData(q[i], t) /\ x = Mark(q[i])
  BY InMarks
<1>2. q[i] \in Message
  BY <1>1
<1> QED  BY <1>1, <1>2, MarkType

LEMMA BelowOrder ==
  ASSUME NEW x \in Int \X Int, NEW y \in Int \X Int, NEW z \in Int \X Int
  PROVE  ~Below(x, x) /\ (Below(x, y) /\ Below(y, z) => Below(x, z))
BY DEF Below

LEMMA LikeItself == \A q, t : Like(q, q, t)
BY DEF Like

LEMMA LikeTail ==
  ASSUME NEW q \in Seq(Message), q # << >>, NEW t, ~IsData(Head(q), t)
  PROVE  Like(q, Tail(q), t)
<1>1. \A S : Run(q, t, S) => Run(Tail(q), t, S)
  BY TailRun
<1>2. Marks(Tail(q), t) = Marks(q, t)
  BY TailMarks
<1> QED  BY <1>1, <1>2 DEF Like

LEMMA NoMarks ==
  ASSUME NEW q, NEW t
  PROVE  /\ Marks(q, t) = {} <=> \A i \in 1 .. Len(q) : ~IsData(q[i], t)
         /\ Marks(q, t) = {} => \A S : Run(q, t, S)
BY InMarks DEF Run

LEMMA OneRun ==
  ASSUME NEW m, NEW t, IsData(m, t)
  PROVE  Marks(<<m>>, t) = {Mark(m)} /\ Run(<<m>>, t, {Mark(m)})
<1>1. Len(<<m>>) = 1 /\ <<m>>[1] = m
  OBVIOUS
<1>2. PICK q : q = <<m>>
  OBVIOUS
<1>3. (\A i \in 1 .. Len(q) : i = 1) /\ 1 \in 1 .. Len(q) /\ q[1] = m
  BY <1>1, <1>2
<1>4. \A x : x \in Marks(q, t) <=>
           \E i \in 1 .. Len(q) : IsData(q[i], t) /\ x = Mark(q[i])
  BY InMarks
<1>5. Marks(q, t) = {Mark(m)}
  BY ONLY <1>3, <1>4, IsData(m, t)
<1>6. Run(q, t, {Mark(m)})
  BY ONLY <1>3, IsData(m, t) DEF Run
<1> QED  BY <1>2, <1>5, <1>6

LEMMA LikeJoin ==
  ASSUME NEW q \in Seq(Message), NEW ms \in Seq(Message), NEW t,
         \A i \in 1 .. Len(ms) : ~IsData(ms[i], t)
  PROVE  Like(q, q \o ms, t)
<1>1. Marks(ms, t) = {} /\ Run(ms, t, {})
  BY NoMarks
<1>2. Marks(q \o ms, t) = Marks(q, t)
  <2>1. Marks(q \o ms, t) = Marks(q, t) \union Marks(ms, t)
    BY JoinMarks
  <2> QED  BY <1>1, <2>1
<1>3. \A S : Run(q, t, S) => Run(q \o ms, t, S)
  BY <1>1, JoinRun
<1> QED  BY <1>2, <1>3 DEF Like

LEMMA FlowLike ==
  ASSUME NEW q1, NEW q2, NEW q3, NEW q4, NEW t, NEW p, NEW E,
         Flow(q1, q2, t, p, E), Like(q1, q3, t), Like(q2, q4, t)
  PROVE  Flow(q3, q4, t, p, E)
BY DEF Flow, Like

\* No data are under way, and the writer has to get all from p on.
LEMMA FlowStarts ==
  ASSUME NEW q1, NEW q2, NEW t, NEW p, Marks(q1, t) = {}, Marks(q2, t) = {}
  PROVE  Flow(q1, q2, t, p, {}) /\ Flow(q1, q2, t, p, {p})
BY NoMarks DEF Flow

\* What the source has sent is lost, and it sends no more.
LEMMA FlowCut ==
  ASSUME NEW q1, NEW q2, NEW t, NEW p, NEW E, Flow(q1, q2, t, p, E)
  PROVE  Flow(q1, << >>, t, p, {}) /\ Flow(q1, q2, t, p, {})
BY EmptyRun DEF Flow

\* The writer gets what it expects.
LEMMA FlowTaken ==
  ASSUME NEW q1 \in Seq(Message), NEW q2, NEW t, NEW p, NEW E,
         Flow(q1, q2, t, p, E), q1 # << >>, IsData(Head(q1), t)
  PROVE  Mark(Head(q1)) = p /\ Flow(Tail(q1), q2, t, Succ(p), E)
<1> DEFINE M1 == Marks(q1, t)
           M2 == Marks(q2, t)
<1>1. /\ Mark(Head(q1)) \in {p} /\ Mark(Head(q1)) \in M1
      /\ Run(Tail(q1), t, {Succ(Mark(Head(q1)))} \union ({p} \ {Mark(Head(q1))}))
      /\ Marks(Tail(q1), t) = M1 \ {Mark(Head(q1))}
  <2>1. Run(q1, t, {p})
    BY DEF Flow
  <2>2. /\ Mark(Head(q1)) \in {p} /\ Mark(Head(q1)) \notin Marks(Tail(q1), t)
        /\ Run(Tail(q1), t, {Succ(Mark(Head(q1)))} \union ({p} \ {Mark(Head(q1))}))
    BY <2>1, TailRun
  <2>3. M1 = Marks(Tail(q1), t) \union {Mark(Head(q1))}
    BY TailMarks
  <2> QED  BY <2>2, <2>3
<1>2. /\ Mark(Head(q1)) = p /\ p \in M1 /\ Run(Tail(q1), t, {Succ(p)})
      /\ Marks(Tail(q1), t) = M1 \ {p}
  <2>1. Mark(Head(q1)) = p
    BY <1>1
  <2>2. {Succ(p)} \union ({p} \ {p}) = {Succ(p)}
    OBVIOUS
  <2> QED  BY <1>1, <2>1, <2>2
<1>3. Run(q2, t, {Succ(p)} \union After(M1 \ {p}))
  <2>1. p \notin M2 /\ Run(q2, t, {p} \union After(M1))
    BY <1>2 DEF Flow
  <2>2. \A x \in {p} \union After(M1) :
          x \in M2 => x \in {Succ(p)} \union After(M1 \ {p})
    BY <2>1 DEF After
  <2> QED  BY <2>1, <2>2, RunWithin
<1>4. ASSUME NEW e \in E
      PROVE  /\ \A x \in (M1 \ {p}) \union M2 : Below(x, e)
             /\ e \in {Succ(p)} \union After((M1 \ {p}) \union M2)
  <2>1. /\ \A x \in M1 \union M2 : Below(x, e)
        /\ e \in {p} \union After(M1 \union M2)
    BY DEF Flow
  <2>2. p \in Int \X Int
    BY <1>2, MarksType
  <2>3. e # p
    BY <1>2, <2>1, <2>2, BelowOrder
  <2>4. e \in {Succ(p)} \union After((M1 \ {p}) \union M2)
    BY <2>1, <2>3 DEF After
  <2> QED  BY <2>1, <2>4
<1>5. (M1 \ {p}) \intersect M2 = {}
  BY DEF Flow
<1> QED  BY <1>2, <1>3, <1>4, <1>5 DEF Flow

\* The server routes one of them.
LEMMA FlowRouted ==
  ASSUME NEW q1 \in Seq(Message), NEW q2 \in Seq(Message), NEW t, NEW p, NEW E,
         Flow(q1, q2, t, p, E), q2 # << >>, IsData(Head(q2), t)
  PROVE  Flow(q1 \o <<Head(q2)>>, Tail(q2), t, p, E)
<1> DEFINE M1 == Marks(q1, t)
           M2 == Marks(q2, t)
           h == Mark(Head(q2))
           S == {p} \union After(M1)
<1>1. /\ h \in S /\ h \in M2
      /\ Run(Tail(q2), t, {Succ(h)} \union (S \ {h}))
      /\ Marks(Tail(q2), t) = M2 \ {h}
  <2>1. Run(q2, t, S)
    BY DEF Flow
  <2>2. /\ h \in S /\ h \notin Marks(Tail(q2), t)
        /\ Run(Tail(q2), t, {Succ(h)} \union (S \ {h}))
    BY <2>1, TailRun
  <2>3. M2 = Marks(Tail(q2), t) \union {h}
    BY TailMarks
  <2> QED  BY <2>2, <2>3
<1>2. <<Head(q2)>> \in Seq(Message) /\ Len(<<Head(q2)>>) = 1
      /\ <<Head(q2)>>[1] = Head(q2)
  OBVIOUS
<1>3. Marks(<<Head(q2)>>, t) = {h} /\ Run(<<Head(q2)>>, t, {h})
  BY OneRun
<1>4. h \notin M1
  BY <1>1 DEF Flow
<1> HIDE DEF h
<1>5. Marks(q1 \o <<Head(q2)>>, t) = M1 \union {h}
  <2>1. \A ms \in Seq(Message) : Marks(q1 \o ms, t) = M1 \union Marks(ms, t)
    BY JoinMarks
  <2> QED  BY <1>2, <1>3, <2>1
<1>6. Run(q1 \o <<Head(q2)>>, t, {p})
  <2>1. Run(q1, t, {p}) /\ M1 \intersect Marks(<<Head(q2)>>, t) = {}
    BY <1>3, <1>4 DEF Flow
  <2>2. \A x \in {h} : x \in Marks(<<Head(q2)>>, t) => x \in {p} \union After(M1)
    BY <1>1
  <2> QED  BY <1>2, <1>3, <2>1, <2>2, JoinRun
<1>7. Run(Tail(q2), t, {p} \union After(M1 \union {h}))
  <2>1. \A x \in {Succ(h)} \union (S \ {h}) : x \in {p} \union After(M1 \union {h})
    BY DEF After
  <2> QED  BY <1>1, <2>1, RunWithin
<1>8. /\ (M1 \union {h}) \intersect (M2 \ {h}) = {}
      /\ (M1 \union {h}) \union (M2 \ {h}) = M1 \union M2
  BY <1>1 DEF Flow
<1> QED  BY <1>1, <1>5, <1>6, <1>7, <1>8 DEF Flow

\* The source sends more of them, at the end of either queue.
LEMMA FlowSent ==
  ASSUME NEW q1 \in Seq(Message), NEW q2 \in Seq(Message),
         NEW ms \in Seq(Message), NEW t, NEW p,
         NEW e \in Int \X Int, NEW E2 \in SUBSET (Int \X Int),
         Flow(q1, q2, t, p, {e}),
         Run(ms, t, {e}), \A x \in Marks(ms, t) : ~Below(x, e),
         \A f \in E2 : /\ Below(e, f) /\ f \in After(Marks(ms, t))
                       /\ \A x \in Marks(ms, t) : Below(x, f)
  PROVE  /\ Flow(q1, q2 \o ms, t, p, E2)
         /\ q2 = << >> => Flow(q1 \o ms, q2, t, p, E2)
<1> DEFINE M1 == Marks(q1, t)
           M2 == Marks(q2, t)
           M == Marks(ms, t)
<1>1. /\ \A x \in M1 \union M2 : Below(x, e)
      /\ e \in {p} \union After(M1 \union M2)
      /\ M1 \intersect M2 = {}
  BY DEF Flow
<1>2. (M1 \union M2) \intersect M = {}
  BY <1>1
<1>3. ASSUME NEW f \in E2, NEW x \in M1 \union M2 PROVE Below(x, f)
  <2>1. x \in Int \X Int /\ f \in Int \X Int
    BY MarksType
  <2> QED  BY <1>1, <2>1, BelowOrder
<1>4. \A f \in E2 :
        /\ \A x \in M1 \union M2 \union M : Below(x, f)
        /\ f \in {p} \union After(M1 \union M2 \union M)
  BY <1>3 DEF After
<1>5. Flow(q1, q2 \o ms, t, p, E2)
  <2>1. Marks(q2 \o ms, t) = M2 \union M
    BY JoinMarks
  <2>2. Run(q2, t, {p} \union After(M1)) /\ M2 \intersect M = {}
    BY <1>2 DEF Flow
  <2>3. \A x \in {e} : x \in ({p} \union After(M1)) \union After(M2)
    BY <1>1 DEF After
  <2>4. Run(q2 \o ms, t, {p} \union After(M1))
    BY <2>2, <2>3, JoinRun
  <2>5. /\ M1 \intersect (M2 \union M) = {}
        /\ M1 \union (M2 \union M) = M1 \union M2 \union M
    BY <1>1, <1>2
  <2> QED  BY <1>4, <2>1, <2>4, <2>5 DEF Flow
<1>6. ASSUME q2 = << >> PROVE Flow(q1 \o ms, q2, t, p, E2)
  <2>1. Marks(q1 \o ms, t) = M1 \union M /\ M2 = {}
    BY <1>6, JoinMarks, EmptyRun
  <2>2. Run(q1, t, {p}) /\ M1 \intersect M = {}
    BY <1>2 DEF Flow
  <2>3. \A x \in {e} : x \in {p} \union After(M1)
    BY <1>1, <2>1
  <2>4. Run(q1 \o ms, t, {p})
    BY <2>2, <2>3, JoinRun
  <2>5. M1 \union M2 \union M = (M1 \union M) \union M2
    OBVIOUS
  <2>6. Run(q2, t, {p} \union After(M1 \union M))
    BY <1>6, EmptyRun
  <2> QED  BY <1>4, <2>1, <2>4, <2>5, <2>6 DEF Flow
<1> QED  BY <1>5, <1>6

\* What is read of a file carries on from where the reader was to where it is.
LEMMA PiecesRun ==
  ASSUME NEW o \in Reader
  PROVE  /\ Run(Pieces(o), o.id, {Coming(o)})
         /\ Coming(o) \in Int \X Int
         /\ \A x \in Marks(Pieces(o), o.id) : ~Below(x, Coming(o))
         /\ Advance(o) # NoReader =>
              /\ Coming(Advance(o)) \in Int \X Int
              /\ Below(Coming(o), Coming(Advance(o)))
              /\ Coming(Advance(o)) \in After(Marks(Pieces(o), o.id))
              /\ \A x \in Marks(Pieces(o), o.id) : Below(x, Coming(Advance(o)))
         /\ Counted(Pieces(o))
<1> DEFINE t == o.id
           a == Chunk(t, o.item, o.chunk)
           b == ItemEnd(t, o.item)
           c == Finish(t)
           A == IF o.chunk < Chunks THEN <<a>> ELSE << >>
           B == IF LastOfItem(o) THEN <<b>> ELSE << >>
           C == IF LastOfItem(o) /\ LastItem(o) THEN <<c>> ELSE << >>
           e == Coming(o)
           MA == IF o.chunk < Chunks THEN {<<o.item + 1, o.chunk>>} ELSE {}
           MB == IF LastOfItem(o) THEN {<<o.item + 1, Chunks>>} ELSE {}
           MC == IF LastOfItem(o) /\ LastItem(o) THEN {<<Items + 1, 0>>} ELSE {}
<1>1. /\ o.item \in Nat /\ o.item < Items /\ o.chunk \in Nat /\ o.chunk <= Chunks
      /\ Items \in Nat /\ Chunks \in Nat /\ e = <<o.item + 1, o.chunk>>
      /\ o = [id |-> t, item |-> o.item, chunk |-> o.chunk]
  BY SizeAssumption DEF Reader, Coming
<1>2. /\ o.chunk < Chunks => a \in Message
      /\ b \in Message /\ c \in Message
  BY DEF Reader, Chunk, ItemEnd, Finish, Message
<1>3. A \in Seq(Message) /\ B \in Seq(Message) /\ C \in Seq(Message)
  BY <1>2
<1>4. /\ IsData(a, t) /\ IsData(b, t) /\ IsData(c, t)
      /\ Mark(a) = <<o.item + 1, o.chunk>> /\ Mark(b) = <<o.item + 1, Chunks>>
      /\ Mark(c) = <<Items + 1, 0>>
  BY DEF IsData, DataTypes, Chunk, ItemEnd, Finish, Mark
<1>5. /\ o.chunk < Chunks => a.chunk < Chunks
      /\ b.type # "chunk" /\ c.type # "chunk"
  BY DEF Chunk, ItemEnd, Finish
<1> HIDE DEF a, b, c, t
<1>6. Marks(A, t) = MA /\ Run(A, t, MA)
  BY <1>4, OneRun, EmptyRun
<1>7. Marks(B, t) = MB /\ Run(B, t, MB)
  BY <1>4, OneRun, EmptyRun
<1>8. Marks(C, t) = MC /\ Run(C, t, MC)
  BY <1>4, OneRun, EmptyRun
<1>9. Pieces(o) = (A \o B) \o C
  BY DEF Pieces, a, b, c, t
<1>10. Counted(Pieces(o))
  <2>1. Counted(A) /\ Counted(B) /\ Counted(C)
    <3>1. /\ \A m : Len(<<m>>) = 1 /\ <<m>>[1] = m
          /\ \A i \in 1 .. 1 : i = 1
      OBVIOUS
    <3>2. \A m : (m.type = "chunk" => m.chunk < Chunks) => Counted(<<m>>)
      BY <3>1 DEF Counted
    <3>3. Counted(<< >>)
      BY DEF Counted
    <3> QED  BY <1>5, <3>2, <3>3
  <2> HIDE DEF A, B, C
  <2>2. Counted(A \o B) /\ A \o B \in Seq(Message)
    BY <1>3, <2>1, JoinElements DEF Counted
  <2>3. Counted((A \o B) \o C)
    BY <1>3, <2>1, <2>2, JoinElements DEF Counted
  <2> QED  BY <1>9, <2>3
<1> HIDE DEF A, B, C
<1>11. A \o B \in Seq(Message) /\ Marks(A \o B, t) = MA \union MB
  BY <1>3, <1>6, <1>7, JoinMarks
<1>12. Marks(Pieces(o), t) = MA \union MB \union MC
  <2> DEFINE AB == A \o B
  <2>1. AB \in Seq(Message) /\ Pieces(o) = AB \o C
    BY <1>9, <1>11
  <2> HIDE DEF AB
  <2>2. Marks(AB \o C, t) = Marks(AB, t) \union Marks(C, t)
    BY <1>3, <2>1, JoinMarks
  <2> QED  BY <1>8, <1>11, <2>1, <2>2 DEF AB
<1>13. Run(A, t, {e})
  <2>1. \A x \in MA : x \in {e}
    BY <1>1
  <2> QED  BY <1>6, <2>1, RunWithin
<1>14. Run(A \o B, t, {e})
  <2>1. \A x \in MB : x \in {e} \union After(MA)
    <3>1. CASE o.chunk < Chunks /\ LastOfItem(o)
      <4>1. o.chunk + 1 = Chunks /\ o.item + 1 # 0 /\ o.chunk # Chunks
        BY <1>1, <3>1 DEF LastOfItem
      <4>2. Succ(<<o.item + 1, o.chunk>>) = <<o.item + 1, Chunks>>
        BY <4>1 DEF Succ
      <4> QED  BY <3>1, <4>2 DEF After
    <3>2. CASE ~(o.chunk < Chunks)
      BY <1>1, <3>2
    <3> QED  BY <3>1, <3>2
  <2>2. MA \intersect MB = {}
    <3>1. o.chunk < Chunks => <<o.item + 1, o.chunk>> # <<o.item + 1, Chunks>>
      BY <1>1
    <3> QED  BY <3>1
  <2> HIDE DEF MA, MB, e
  <2> QED  BY <1>3, <1>6, <1>7, <1>13, <2>1, <2>2, JoinRun
<1>15. Run(Pieces(o), t, {e})
  <2>1. \A x \in MC : x \in {e} \union After(MA \union MB)
    <3>1. CASE LastOfItem(o) /\ LastItem(o)
      <4>1. Succ(<<o.item + 1, Chunks>>) = <<Items + 1, 0>>
        BY <3>1 DEF Succ, LastItem
      <4> QED  BY <3>1, <4>1 DEF After
    <3> QED  BY <3>1
  <2>2. (MA \union MB) \intersect MC = {}
    <3>1. /\ <<o.item + 1, o.chunk>> # <<Items + 1, 0>>
          /\ <<o.item + 1, Chunks>> # <<Items + 1, 0>>
      BY <1>1
    <3> QED  BY <3>1
  <2> DEFINE AB == A \o B
  <2>3. /\ AB \in Seq(Message) /\ Pieces(o) = AB \o C
        /\ Marks(AB, t) = MA \union MB /\ Run(AB, t, {e})
    BY <1>9, <1>11, <1>14
  <2> HIDE DEF MA, MB, MC, e, AB
  <2>4. Run(AB \o C, t, {e})
    BY <1>3, <1>8, <2>1, <2>2, <2>3, JoinRun
  <2> QED  BY <2>3, <2>4
<1>16. e \in Int \X Int /\ \A x \in MA \union MB \union MC : ~Below(x, e)
  <2>1. /\ ~Below(<<o.item + 1, o.chunk>>, e) /\ ~Below(<<o.item + 1, Chunks>>, e)
        /\ ~Below(<<Items + 1, 0>>, e)
    BY <1>1 DEF Below
  <2> QED  BY <1>1, <2>1
<1>17. ASSUME Advance(o) # NoReader
       PROVE  /\ Coming(Advance(o)) \in Int \X Int
              /\ Below(e, Coming(Advance(o)))
              /\ Coming(Advance(o)) \in After(MA \union MB \union MC)
              /\ \A x \in MA \union MB \union MC : Below(x, Coming(Advance(o)))
  <2>1. CASE ~LastOfItem(o)
    <3>1. Advance(o) = [id |-> t, item |-> o.item, chunk |-> o.chunk + 1]
      BY <1>1, <2>1 DEF Advance
    <3>2. Coming(Advance(o)) = <<o.item + 1, o.chunk + 1>>
      BY <3>1 DEF Coming
    <3>3. o.chunk < Chunks /\ o.chunk # Chunks /\ o.item + 1 # 0
      BY <1>1, <2>1 DEF LastOfItem
    <3>4. Succ(<<o.item + 1, o.chunk>>) = <<o.item + 1, o.chunk + 1>>
      BY <3>3 DEF Succ
    <3>5. MA \union MB \union MC = {<<o.item + 1, o.chunk>>}
      BY <2>1, <3>3
    <3>6. Below(<<o.item + 1, o.chunk>>, <<o.item + 1, o.chunk + 1>>)
      BY <1>1 DEF Below
    <3> QED  BY <1>1, <3>2, <3>4, <3>5, <3>6 DEF After
  <2>2. CASE LastOfItem(o) /\ ~LastItem(o)
    <3>1. Advance(o) = [id |-> t, item |-> o.item + 1, chunk |-> 0]
      <4>1. o = [id |-> o.id, item |-> o.item, chunk |-> o.chunk]
        BY DEF Reader
      <4> QED  BY <2>2, <4>1 DEF Advance, t
    <3>2. Coming(Advance(o)) = <<o.item + 1 + 1, 0>>
      BY <3>1 DEF Coming
    <3>3. Succ(<<o.item + 1, Chunks>>) = <<o.item + 1 + 1, 0>>
      BY DEF Succ
    <3>4. MA \union MB \union MC \subseteq {<<o.item + 1, o.chunk>>, <<o.item + 1, Chunks>>}
      BY <2>2
    <3>5. <<o.item + 1, Chunks>> \in MA \union MB \union MC
      BY <2>2
    <3>6. /\ Below(<<o.item + 1, o.chunk>>, <<o.item + 1 + 1, 0>>)
          /\ Below(<<o.item + 1, Chunks>>, <<o.item + 1 + 1, 0>>)
      BY <1>1 DEF Below
    <3>7. <<o.item + 1 + 1, 0>> \in Int \X Int
      BY <1>1
    <3>8. Coming(Advance(o)) \in After(MA \union MB \union MC)
      BY <3>2, <3>3, <3>5 DEF After
    <3> HIDE DEF MA, MB, MC
    <3> QED  BY <1>1, <3>2, <3>4, <3>6, <3>7, <3>8
  <2>3. CASE LastOfItem(o) /\ LastItem(o)
    BY <1>17, <2>3 DEF Advance
  <2> QED  BY <2>1, <2>2, <2>3
<1> QED  BY <1>10, <1>12, <1>15, <1>16, <1>17 DEF t

-----------------------------------------------------------------------------
(* What a step leaves of the turn of a transfer.                            *)

\* To transfer t the queues are what they were, with no token that is new.
Alike(t) ==
  /\ Like(inbox[route[t].target], inbox'[route[t].target], t)
  /\ Like(Unrouted(upstream, route[t].source),
          Unrouted(upstream', route[t].source), t)
  /\ NoToken(upstream, inbox, t) => NoToken(upstream', inbox', t)

\* Its reader and writer stay where they are, if they stay.
Steady(t) ==
  LET s == route[t].source
      r == route[t].target
  IN /\ route'[t] = route[t]
     /\ incoming'[r].id = t => incoming'[r] = incoming[r]
     /\ outgoing'[s].id = t => outgoing'[s] = outgoing[s]
     /\ phase'[s][t] = "awaitingDecision" => phase[s][t] = "awaitingDecision"

LEMMA RouteEnds ==
  ASSUME FullType, NEW t \in Id
  PROVE  route[t].source \in Node /\ route[t].target \in Node
BY DEF FullType, IdType, Route

LEMMA AllAlike ==
  ASSUME FullType, NEW t \in Id,
         \A c \in Conn : Like(upstream[c], upstream'[c], t),
         \A n \in Node : Like(inbox[n], inbox'[n], t),
         NoToken(upstream, inbox, t) => NoToken(upstream', inbox', t)
  PROVE  Alike(t)
BY RouteEnds, LikeItself DEF Alike, Unrouted

LEMMA TurnKept ==
  ASSUME FullType, NEW t \in Id, Turn(t), Alike(t), Steady(t)
  PROVE  Turn(t)'
<1> DEFINE s == route[t].source
           r == route[t].target
           q1 == inbox[r]
           q2 == Unrouted(upstream, s)
           q3 == inbox'[r]
           q4 == Unrouted(upstream', s)
<1>1. s \in Node /\ r \in Node
  BY RouteEnds
<1>2. route'[t].source = s /\ route'[t].target = r
  BY DEF Steady
<1>3. Like(q1, q3, t) /\ Like(q2, q4, t)
  BY DEF Alike
<1>4. NoData(t)' <=> Marks(q3, t) = {} /\ Marks(q4, t) = {}
  BY <1>2 DEF NoData
<1>5. NoData(t) => NoData(t)'
  BY <1>3, <1>4 DEF NoData, Like
<1>6. \/ NoData(t)'
      \/ NoToken(upstream', inbox', t) /\ phase'[s][t] # "awaitingDecision"
  BY <1>5 DEF Turn, Alike, Steady
<1>7. ASSUME incoming'[r].id = t
      PROVE  /\ Flow(q3, q4, t, Expected(incoming'[r]), Due(t)')
             /\ phase'[s][t] = "awaitingDecision" =>
                  incoming'[r].state = "awaitingBegin"
  <2>1. incoming'[r] = incoming[r] /\ incoming[r].id = t
    BY <1>7 DEF Steady
  <2>2. Flow(q1, q2, t, Expected(incoming[r]), Due(t))
    BY <2>1 DEF Turn
  <2>3. Flow(q3, q4, t, Expected(incoming[r]), Due(t))
    BY <1>3, <2>2, FlowLike
  <2>4. Due(t)' = Due(t) \/ Due(t)' = {}
    BY <1>2 DEF Due, Steady
  <2>5. Flow(q3, q4, t, Expected(incoming[r]), Due(t)')
    BY <2>3, <2>4, FlowCut
  <2> QED  BY <2>1, <2>5 DEF Turn, Steady
<1> QED  BY <1>2, <1>6, <1>7 DEF Turn

\* The target has no writer for it, or no longer.
LEMMA TurnLost ==
  ASSUME NEW t, Turn(t), route'[t] = route[t],
         incoming'[route[t].target].id # t, NoData(t) => NoData(t)',
         NoToken(upstream, inbox, t) => NoToken(upstream', inbox', t),
         phase'[route[t].source][t] = "awaitingDecision" =>
           phase[route[t].source][t] = "awaitingDecision"
  PROVE  Turn(t)'
BY DEF Turn

LEMMA JoinTok ==
  ASSUME NEW q \in Seq(Message), NEW ms \in Seq(Message), NEW t, Tok(q \o ms, t)
  PROVE  Tok(q, t) \/ Tok(ms, t)
BY JoinElements DEF Tok

LEMMA TailTok ==
  ASSUME NEW q \in Seq(Message), q # << >>, NEW t, Tok(Tail(q), t)
  PROVE  Tok(q, t)
BY TailElements DEF Tok

LEMMA TakenAlike ==
  ASSUME NetType, NEW n \in Node, inbox[n] # << >>, NEW t,
         ~IsData(Head(inbox[n]), t)
  PROVE  /\ \A p \in Node : Like(inbox[p], Taken(n)[p], t)
         /\ NoToken(upstream, inbox, t) => NoToken(upstream, Taken(n), t)
<1>1. /\ inbox[n] \in Seq(Message) /\ Taken(n)[n] = Tail(inbox[n])
      /\ \A p \in Node : p # n => Taken(n)[p] = inbox[p]
  BY DEF NetType, Taken
<1>2. \A p \in Node : Like(inbox[p], Taken(n)[p], t)
  BY <1>1, LikeTail, LikeItself
<1>3. \A p \in Node : Tok(Taken(n)[p], t) => Tok(inbox[p], t)
  BY <1>1, TailTok
<1> QED  BY <1>2, <1>3 DEF NoToken

LEMMA LikeTrans ==
  ASSUME NEW q, NEW q2, NEW q3, NEW t, Like(q, q2, t), Like(q2, q3, t)
  PROVE  Like(q, q3, t)
BY DEF Like

LEMMA PostsLike ==
  ASSUME NetType, NEW n \in Node, NEW to \in Node, NEW t,
         NEW ms \in Seq(Message), \A i \in 1 .. Len(ms) : ~IsData(ms[i], t),
         NEW in \in [Node -> Seq(Message)],
         \A p \in Node : Like(inbox[p], in[p], t), Posts(n, to, ms, in)
  PROVE  /\ \A c \in Conn : Like(upstream[c], upstream'[c], t)
         /\ \A p \in Node : Like(inbox[p], inbox'[p], t)
<1>1. CASE n # Primary
  <2>1. /\ n \in Conn /\ inbox' = in /\ upstream'[n] = upstream[n] \o ms
        /\ \A c \in Conn : c # n => upstream'[c] = upstream[c]
        /\ upstream[n] \in Seq(Message)
    BY <1>1 DEF Posts, Node, NetType
  <2> QED  BY <2>1, LikeJoin, LikeItself
<1>2. CASE n = Primary
  <2>1. upstream' = upstream
    BY <1>2 DEF Posts
  <2>2. CASE inbox' = in
    BY <2>1, <2>2, LikeItself
  <2>3. CASE inbox' = [in EXCEPT ![to] = @ \o ms]
    <3>1. /\ inbox'[to] = in[to] \o ms /\ in[to] \in Seq(Message)
          /\ \A p \in Node : p # to => inbox'[p] = in[p]
      BY <2>3
    <3>2. \A p \in Node : Like(in[p], inbox'[p], t)
      BY <3>1, LikeJoin, LikeItself
    <3>3. \A p \in Node : Like(inbox[p], inbox'[p], t)
      BY <3>2, LikeTrans
    <3> QED  BY <2>1, <3>3, LikeItself
  <2> QED  BY <1>2, <2>2, <2>3 DEF Posts
<1> QED  BY <1>1, <1>2

LEMMA PostsTokens ==
  ASSUME NetType, NEW n \in Node, NEW to \in Node, NEW t,
         NEW ms \in Seq(Message), ~Tok(ms, t),
         NEW in \in [Node -> Seq(Message)],
         NoToken(upstream, in, t), Posts(n, to, ms, in)
  PROVE  NoToken(upstream', inbox', t)
<1>1. CASE n # Primary
  <2>1. /\ n \in Conn /\ inbox' = in /\ upstream'[n] = upstream[n] \o ms
        /\ \A c \in Conn : c # n => upstream'[c] = upstream[c]
        /\ upstream[n] \in Seq(Message)
    BY <1>1 DEF Posts, Node, NetType
  <2> QED  BY <2>1, JoinTok DEF NoToken
<1>2. CASE n = Primary
  <2>1. upstream' = upstream
    BY <1>2 DEF Posts
  <2>2. CASE inbox' = in
    BY <2>1, <2>2 DEF NoToken
  <2>3. CASE inbox' = [in EXCEPT ![to] = @ \o ms]
    <3>1. /\ inbox'[to] = in[to] \o ms /\ in[to] \in Seq(Message)
          /\ \A p \in Node : p # to => inbox'[p] = in[p]
      BY <2>3
    <3> QED  BY <2>1, <3>1, JoinTok DEF NoToken
  <2> QED  BY <1>2, <2>2, <2>3 DEF Posts
<1> QED  BY <1>1, <1>2

\* What may have been taken from the inboxes of computer n.
MaybeTaken(n, t, in) ==
  \/ in = inbox
  \/ inbox[n] # << >> /\ ~IsData(Head(inbox[n]), t) /\ in = Taken(n)

LEMMA MaybeTakenAlike ==
  ASSUME NetType, NEW n \in Node, NEW t, NEW in, MaybeTaken(n, t, in)
  PROVE  /\ in \in [Node -> Seq(Message)]
         /\ \A p \in Node : Like(inbox[p], in[p], t)
         /\ NoToken(upstream, inbox, t) => NoToken(upstream, in, t)
<1>1. CASE in = inbox
  BY <1>1, LikeItself DEF NetType
<1>2. CASE inbox[n] # << >> /\ ~IsData(Head(inbox[n]), t) /\ in = Taken(n)
  BY <1>2, TakenAlike, TakenType
<1> QED  BY <1>1, <1>2 DEF MaybeTaken

\* Messages that are not data of t, and no tokens unless t has some.
LEMMA PostsAlike ==
  ASSUME FullType, NEW n \in Node, NEW to \in Node, NEW t \in Id, NEW in,
         MaybeTaken(n, t, in), NEW ms \in Seq(Message),
         \A i \in 1 .. Len(ms) : ~IsData(ms[i], t),
         Tok(ms, t) => ~NoToken(upstream, inbox, t),
         Posts(n, to, ms, in)
  PROVE  Alike(t)
<1>1. NetType
  BY DEF FullType
<1>2. /\ in \in [Node -> Seq(Message)]
      /\ \A p \in Node : Like(inbox[p], in[p], t)
      /\ NoToken(upstream, inbox, t) => NoToken(upstream, in, t)
  BY <1>1, MaybeTakenAlike
<1>3. /\ \A c \in Conn : Like(upstream[c], upstream'[c], t)
      /\ \A p \in Node : Like(inbox[p], inbox'[p], t)
  BY <1>1, <1>2, PostsLike
<1>4. NoToken(upstream, inbox, t) => NoToken(upstream', inbox', t)
  BY <1>1, <1>2, PostsTokens
<1> QED  BY <1>3, <1>4, AllAlike

LEMMA SilentAlike ==
  ASSUME FullType, NEW n \in Node, NEW t \in Id, NEW in, MaybeTaken(n, t, in),
         inbox' = in, upstream' = upstream
  PROVE  Alike(t)
<1>1. NetType
  BY DEF FullType
<1> QED  BY <1>1, MaybeTakenAlike, LikeItself, AllAlike

-----------------------------------------------------------------------------
(* Writers, and what the queues hold beside turns.                          *)

\* A writer takes the message it expects.
LEMMA WriterTakes ==
  ASSUME NEW w \in Writer, InPlace(w), NEW m \in Message, NEW t, IsData(m, t),
         m.type = "chunk" => m.chunk < Chunks, Mark(m) = Expected(w)
  PROVE  Accepts(w, m)
<1>1. /\ w.item \in Nat /\ w.chunk \in Nat /\ Items \in Nat /\ Chunks \in Nat
      /\ w.state \in {"awaitingBegin", "receiving", "readyToFinish"}
  BY SizeAssumption DEF Writer
<1>2. /\ w.state = "awaitingBegin" => w.item = 0 /\ w.chunk = 0
      /\ w.state = "receiving" => w.item < Items
      /\ w.state = "readyToFinish" => w.item = Items /\ w.chunk = 0
  BY DEF InPlace
<1>3. m.type \in {"chunk", "itemEnd"} => m.item \in Nat /\ m.item < Items
  BY <1>1, MessageFields
<1>4. \/ w.state = "awaitingBegin" /\ Expected(w) = <<0, 0>>
      \/ w.state # "awaitingBegin" /\ Expected(w) = <<w.item + 1, w.chunk>>
  BY DEF Expected
<1>5. CASE m.type = "begin"
  <2>1. <<0, 0>> # <<w.item + 1, w.chunk>>
    BY <1>1
  <2> QED  BY <1>4, <1>5, <2>1 DEF Mark, Accepts
<1>6. CASE m.type = "chunk"
  <2>1. Mark(m) = <<m.item + 1, m.chunk>> /\ m.item + 1 # 0
    BY <1>3, <1>6 DEF Mark
  <2>2. w.state # "awaitingBegin" /\ m.item + 1 = w.item + 1 /\ m.chunk = w.chunk
    BY <1>4, <2>1
  <2>3. m.item = w.item /\ w.state = "receiving"
    BY <1>1, <1>2, <1>3, <1>6, <2>2
  <2> QED  BY <1>6, <2>2, <2>3 DEF Accepts
<1>7. CASE m.type = "itemEnd"
  <2>1. Mark(m) = <<m.item + 1, Chunks>> /\ m.item + 1 # 0
    BY <1>3, <1>7 DEF Mark
  <2>2. w.state # "awaitingBegin" /\ m.item + 1 = w.item + 1 /\ Chunks = w.chunk
    BY <1>4, <2>1
  <2>3. m.item = w.item /\ w.state = "receiving"
    BY <1>1, <1>2, <1>3, <1>7, <2>2
  <2> QED  BY <1>7, <2>2, <2>3 DEF Accepts
<1>8. CASE m.type = "finish"
  <2>1. Mark(m) = <<Items + 1, 0>> /\ Items + 1 # 0
    BY <1>1, <1>8 DEF Mark
  <2>2. w.state # "awaitingBegin" /\ Items + 1 = w.item + 1
    BY <1>4, <2>1
  <2>3. w.state = "readyToFinish"
    BY <1>1, <1>2, <2>2
  <2> QED  BY <1>8, <2>3 DEF Accepts
<1> QED  BY <1>5, <1>6, <1>7, <1>8 DEF IsData, DataTypes

\* Then it expects the one that follows.
LEMMA WriterMoves ==
  ASSUME NEW w \in Writer, InPlace(w), NEW m \in Message, Accepts(w, m),
         m.type # "finish"
  PROVE  /\ InPlace(Written(w, m))
         /\ Expected(Written(w, m)) = Succ(Expected(w))
<1>1. /\ w.item \in Nat /\ w.chunk \in Nat /\ Items \in Nat /\ Chunks \in Nat
      /\ w = [id |-> w.id, state |-> w.state, item |-> w.item, chunk |-> w.chunk]
      /\ w.state \in {"awaitingBegin", "receiving", "readyToFinish"}
  BY SizeAssumption DEF Writer
<1>2. CASE m.type = "begin"
  <2>1. w.state = "awaitingBegin" /\ w.item = 0 /\ w.chunk = 0
    BY <1>2 DEF Accepts, InPlace
  <2>2. Written(w, m) = [id |-> w.id, state |-> "receiving", item |-> 0, chunk |-> 0]
    BY <1>1, <1>2, <2>1 DEF Written
  <2>3. InPlace(Written(w, m))
    BY <2>2, SizeAssumption DEF InPlace
  <2>4. Expected(w) = <<0, 0>> /\ Expected(Written(w, m)) = <<1, 0>>
    BY <2>1, <2>2 DEF Expected
  <2> QED  BY <2>3, <2>4 DEF Succ
<1>3. CASE m.type = "chunk"
  <2>1. w.state = "receiving" /\ w.chunk < Chunks /\ w.item < Items
    BY <1>3 DEF Accepts, InPlace
  <2>2. Written(w, m) = [id |-> w.id, state |-> "receiving", item |-> w.item,
                         chunk |-> w.chunk + 1]
    BY <1>1, <1>3, <2>1 DEF Written
  <2>3. InPlace(Written(w, m))
    BY <2>1, <2>2 DEF InPlace
  <2>4. /\ Expected(w) = <<w.item + 1, w.chunk>>
        /\ Expected(Written(w, m)) = <<w.item + 1, w.chunk + 1>>
    BY <2>1, <2>2 DEF Expected
  <2>5. w.item + 1 # 0 /\ w.chunk # Chunks
    BY <1>1, <2>1
  <2> QED  BY <2>3, <2>4, <2>5 DEF Succ
<1>4. CASE m.type = "itemEnd"
  <2>1. w.state = "receiving" /\ w.chunk = Chunks /\ w.item < Items
    BY <1>4 DEF Accepts, InPlace
  <2> DEFINE x == IF w.item + 1 = Items THEN "readyToFinish" ELSE "receiving"
  <2>2. Written(w, m) = [id |-> w.id, state |-> x, item |-> w.item + 1, chunk |-> 0]
    BY <1>1, <1>4, <2>1 DEF Written
  <2>3. InPlace(Written(w, m))
    <3>1. CASE w.item + 1 = Items
      BY <2>2, <3>1 DEF InPlace
    <3>2. CASE w.item + 1 # Items
      BY <1>1, <2>1, <2>2, <3>2 DEF InPlace
    <3> QED  BY <3>1, <3>2
  <2>4. /\ Expected(w) = <<w.item + 1, w.chunk>>
        /\ Expected(Written(w, m)) = <<w.item + 1 + 1, 0>>
    BY <2>1, <2>2 DEF Expected
  <2> QED  BY <2>1, <2>3, <2>4 DEF Succ
<1> QED  BY <1>2, <1>3, <1>4 DEF Accepts

\* The turns are what DataAreInTurn needs.
LEMMA TurnsSuffice ==
  FullType /\ Agree /\ Turns => DataAreInTurn
<1> SUFFICES ASSUME FullType, Agree, Turns, NEW n \in Node,
                    Receives(n, {"begin", "chunk", "itemEnd", "finish"}),
                    incoming[n].id = Head(inbox[n]).id
             PROVE  Accepts(incoming[n], Head(inbox[n]))
  BY DEF DataAreInTurn
<1> DEFINE m == Head(inbox[n])
           t == m.id
           w == incoming[n]
<1>1. /\ inbox[n] \in Seq(Message) /\ inbox[n] # << >> /\ m \in Message
      /\ m.type \in DataTypes
  BY TakenType DEF Receives, FullType, NetType, DataTypes
<1>2. t \in Id /\ IsData(m, t)
  BY <1>1, MessageFields DEF DataTypes, IsData
<1>3. Sound(phase, outgoing, route, drawn, m, n)
  BY <1>1, Takes
<1>4. t \in 1 .. drawn /\ n = route[t].target
  BY <1>1, <1>3 DEF Sound, DataTypes
<1>5. w \in Writer
  <2>1. t # 0
    BY <1>2 DEF Id
  <2> QED  BY <2>1 DEF FullType, SessionType, NoWriter
<1>6. InPlace(w)
  <2>1. w # NoWriter
    BY <1>2 DEF NoWriter, Id
  <2> QED  BY <2>1 DEF Turns, Placed
<1>7. Flow(inbox[n], Unrouted(upstream, route[t].source), t, Expected(w), Due(t))
  BY <1>4 DEF Turns, Turn
<1>8. Mark(m) = Expected(w)
  BY <1>1, <1>2, <1>7, FlowTaken
<1>9. m.type = "chunk" => m.chunk < Chunks
  BY <1>1, TailElements DEF Turns, AllCounted, Counted
<1> HIDE DEF m, t, w
<1>10. Accepts(w, m)
  BY <1>1, <1>2, <1>5, <1>6, <1>8, <1>9, WriterTakes
<1> QED  BY <1>10 DEF w, m

-----------------------------------------------------------------------------
(* What the handlers of a computer do to the queues.                        *)

HandlerNet(n) ==
  /\ n \in Running /\ connected' = connected
  /\ \A p \in Node : p # n => /\ outgoing'[p] = outgoing[p]
                              /\ incoming'[p] = incoming[p]
  /\ \E in : /\ in = inbox \/ (inbox[n] # << >> /\ in = Taken(n))
             /\ \/ inbox' = in /\ upstream' = upstream
                \/ \E to \in Node, ms \in Seq(Message) :
                     Counted(ms) /\ Posts(n, to, ms, in)

LEMMA CountedQueues ==
  ASSUME NEW q \in Seq(Message), Counted(q)
  PROVE  /\ q # << >> => Counted(Tail(q))
         /\ \A ms \in Seq(Message) : Counted(ms) => Counted(q \o ms)
<1>1. q # << >> => Counted(Tail(q))
  BY TailElements DEF Counted
<1>2. ASSUME NEW ms \in Seq(Message), Counted(ms) PROVE Counted(q \o ms)
  BY <1>2, JoinElements DEF Counted
<1> QED  BY <1>1, <1>2

LEMMA HandlerKeeps ==
  ASSUME NetType, Linked, AllCounted, NEW n \in Node, HandlerNet(n)
  PROVE  Linked' /\ AllCounted'
<1>1. PICK in : /\ in = inbox \/ (inbox[n] # << >> /\ in = Taken(n))
                /\ \/ inbox' = in /\ upstream' = upstream
                   \/ \E to \in Node, ms \in Seq(Message) :
                        Counted(ms) /\ Posts(n, to, ms, in)
  BY DEF HandlerNet
<1>2. /\ n \in Running /\ connected' = connected
      /\ \A p \in Node : p # n => /\ outgoing'[p] = outgoing[p]
                                  /\ incoming'[p] = incoming[p]
  BY DEF HandlerNet
<1>3. /\ in \in [Node -> Seq(Message)]
      /\ \A p \in Node : Counted(in[p]) /\ (p # n => in[p] = inbox[p])
  <2>1. CASE in = inbox
    BY <2>1 DEF AllCounted, NetType
  <2>2. CASE inbox[n] # << >> /\ in = Taken(n)
    <3>1. in \in [Node -> Seq(Message)]
      BY <2>2, TakenType
    <3>2. /\ in[n] = Tail(inbox[n]) /\ inbox[n] \in Seq(Message)
          /\ \A p \in Node : p # n => in[p] = inbox[p]
      BY <2>2 DEF Taken, NetType
    <3> QED  BY <2>2, <3>1, <3>2, CountedQueues DEF AllCounted
  <2> QED  BY <1>1, <2>1, <2>2
<1>4. ASSUME NEW c \in Conn \ connected PROVE c # n /\ c \in Node /\ Unlinked(c)
  BY <1>2, PrimaryIsNoClient DEF Running, Node, Linked
<1>5. CASE inbox' = in /\ upstream' = upstream
  <2>1. AllCounted'
    BY <1>3, <1>5 DEF AllCounted
  <2>2. Linked'
    BY <1>2, <1>3, <1>4, <1>5 DEF Linked, Unlinked
  <2> QED  BY <2>1, <2>2
<1>6. ASSUME NEW to \in Node, NEW ms \in Seq(Message), Counted(ms),
             Posts(n, to, ms, in)
      PROVE  Linked' /\ AllCounted'
  <2>1. CASE n # Primary
    <3>1. /\ n \in Conn /\ inbox' = in /\ upstream'[n] = upstream[n] \o ms
          /\ \A c \in Conn : c # n => upstream'[c] = upstream[c]
      BY <1>6, <2>1 DEF Posts, Node, NetType
    <3>2. Counted(upstream'[n])
      BY <1>6, <3>1, CountedQueues DEF NetType, AllCounted
    <3>3. AllCounted'
      BY <1>3, <3>1, <3>2 DEF AllCounted
    <3>4. Linked'
      BY <1>2, <1>3, <1>4, <3>1 DEF Linked, Unlinked
    <3> QED  BY <3>3, <3>4
  <2>2. CASE n = Primary
    <3>1. upstream' = upstream
      BY <1>6, <2>2 DEF Posts
    <3>2. CASE inbox' = in
      <4>1. AllCounted'
        BY <1>3, <3>1, <3>2 DEF AllCounted
      <4>2. Linked'
        BY <1>2, <1>3, <1>4, <3>1, <3>2 DEF Linked, Unlinked
      <4> QED  BY <4>1, <4>2
    <3>3. CASE to \in connected /\ inbox' = [in EXCEPT ![to] = @ \o ms]
      <4>1. /\ inbox'[to] = in[to] \o ms
            /\ \A p \in Node : p # to => inbox'[p] = in[p]
        BY <1>3, <3>3
      <4>2. Counted(inbox'[to])
        BY <1>3, <1>6, <4>1, CountedQueues
      <4>3. AllCounted'
        BY <1>3, <3>1, <4>1, <4>2 DEF AllCounted
      <4>4. Linked'
        BY <1>2, <1>3, <1>4, <3>1, <3>3, <4>1 DEF Linked, Unlinked
      <4> QED  BY <4>3, <4>4
    <3> QED  BY <1>6, <2>2, <3>2, <3>3 DEF Posts, Reaches
  <2> QED  BY <2>1, <2>2
<1> QED  BY <1>1, <1>5, <1>6

-----------------------------------------------------------------------------
(* The actions.                                                             *)

LEMMA HasMail ==
  ASSUME Linked, NEW n \in Node, inbox[n] # << >> \/ outgoing[n] # NoReader
  PROVE  n \in Running
BY DEF Linked, Unlinked, Running, Node

LEMMA NotData ==
  /\ \A type, t, u : type \notin DataTypes => ~IsData(Control(type, t), u)
  /\ \A t, u : t # u => ~IsData(Begin(t), u)
  /\ \A type, t, u : type \notin Token => ~Tok(<<Control(type, t)>>, u)
  /\ \A type, t, u : t # u => ~Tok(<<Control(type, t)>>, u)
  /\ \A type, t : Counted(<<Control(type, t)>>) \/ type = "chunk"
  /\ \A t : Counted(<<Begin(t)>>)
  /\ Counted(<< >>) /\ \A t : ~Tok(<< >>, t)
<1>1. \A m : Len(<<m>>) = 1 /\ <<m>>[1] = m /\ \A i \in 1 .. Len(<<m>>) : i = 1
  OBVIOUS
<1>2. /\ \A type, t, u : type \notin DataTypes => ~IsData(Control(type, t), u)
      /\ \A t, u : t # u => ~IsData(Begin(t), u)
  BY DEF IsData, Control, Begin
<1>3. /\ \A type, t, u : type \notin Token => ~Tok(<<Control(type, t)>>, u)
      /\ \A type, t, u : t # u => ~Tok(<<Control(type, t)>>, u)
  BY <1>1 DEF Tok, Control
<1>4. /\ \A type, t : Counted(<<Control(type, t)>>) \/ type = "chunk"
      /\ \A t : Counted(<<Begin(t)>>)
  BY <1>1 DEF Counted, Control, Begin
<1>5. Counted(<< >>) /\ \A t : ~Tok(<< >>, t)
  BY DEF Counted, Tok
<1> QED  BY <1>2, <1>3, <1>4, <1>5

\* Ending a session stops its reader or writer, if it has one.
LEMMA ClosesSteady ==
  ASSUME FullType, NEW n \in Node, NEW u \in Id,
         NEW how \in {"completed", "failed"}, Closes(n, u, how), route' = route
  PROVE  /\ \A t \in Id : Steady(t)
         /\ incoming'[n].id # u
         /\ Placed => Placed'
         /\ \A p \in Node : p # n => /\ outgoing'[p] = outgoing[p]
                                     /\ incoming'[p] = incoming[p]
<1>1. /\ phase' = [phase EXCEPT ![n][u] = how]
      /\ outgoing' = [outgoing EXCEPT ![n] = IF outgoing[n].id = u THEN NoReader
                                             ELSE outgoing[n]]
      /\ incoming' = [incoming EXCEPT ![n] = IF incoming[n].id = u THEN NoWriter
                                             ELSE incoming[n]]
  BY DEF Closes
<1>2. NoReader.id = 0 /\ NoWriter.id = 0 /\ 0 \notin Id
  BY DEF NoReader, NoWriter, Id
<1>3. /\ \A p \in Node : outgoing'[p] = outgoing[p] \/ outgoing'[p] = NoReader
      /\ \A p \in Node : incoming'[p] = incoming[p] \/ incoming'[p] = NoWriter
      /\ incoming'[n].id # u
      /\ \A p \in Node : p # n => /\ outgoing'[p] = outgoing[p]
                                  /\ incoming'[p] = incoming[p]
  BY <1>1, <1>2 DEF FullType, SessionType
<1>4. \A p \in Node, t \in Id : phase'[p][t] = phase[p][t] \/ phase'[p][t] = how
  BY <1>1 DEF FullType, SessionType
<1>5. ASSUME NEW t \in Id PROVE Steady(t)
  BY <1>2, <1>3, <1>4, RouteEnds DEF Steady
<1>6. Placed => Placed'
  BY <1>3 DEF Placed
<1> QED  BY <1>3, <1>5, <1>6

LEMMA KeptSteady ==
  ASSUME UNCHANGED sessionVars, NEW t, route'[t] = route[t]
  PROVE  Steady(t)
BY DEF Steady, sessionVars

\* Failing a session, for the transfers of which no data are sent or taken.
LEMMA FailTurn ==
  ASSUME FullType, NEW n \in Node, NEW u \in Id, NEW t \in Id, Turn(t),
         NEW in, MaybeTaken(n, t, in), NEW ms \in Seq(Message),
         \A i \in 1 .. Len(ms) : ~IsData(ms[i], t) /\ ms[i].type \notin Token,
         failSession(n, u, ms, in), route' = route
  PROVE  Turn(t)'
<1>1. OtherEnd(n, u) \in Node
  BY OtherEndType DEF FullType
<1>2. CASE u \in Sessions(n)
  <2> DEFINE f == Control("failed", u)
             all == Append(ms, f)
  <2>1. Posts(n, OtherEnd(n, u), all, in) /\ Closes(n, u, "failed")
    BY <1>2 DEF failSession
  <2>2. f \in Message /\ ~IsData(f, t) /\ f.type \notin Token
    BY ControlIsMessage, NotData DEF Control, Token, DataTypes
  <2> HIDE DEF f
  <2>3. all \in Seq(Message)
        /\ \A i \in 1 .. Len(all) : all[i] = f \/ (i \in 1 .. Len(ms) /\ all[i] = ms[i])
    BY <2>2
  <2> HIDE DEF all
  <2>4. \A i \in 1 .. Len(all) : ~IsData(all[i], t) /\ all[i].type \notin Token
    BY <2>2, <2>3
  <2>5. ~Tok(all, t)
    BY <2>4 DEF Tok
  <2>6. Alike(t)
    BY <1>1, <2>1, <2>3, <2>4, <2>5, PostsAlike
  <2>7. Steady(t)
    BY <2>1, ClosesSteady
  <2> QED  BY <2>6, <2>7, TurnKept
<1>3. CASE u \notin Sessions(n)
  <2>1. UNCHANGED sessionVars /\ Posts(n, OtherEnd(n, u), ms, in)
    BY <1>3 DEF failSession
  <2>2. ~Tok(ms, t)
    BY DEF Tok
  <2>3. Alike(t)
    BY <1>1, <2>1, <2>2, PostsAlike
  <2>4. Steady(t)
    BY <2>1, KeptSteady
  <2> QED  BY <2>3, <2>4, TurnKept
<1> QED  BY <1>2, <1>3

\* It leaves the rest in place.
LEMMA FailNet ==
  ASSUME FullType, Placed, NEW n \in Running, NEW u \in Id, connected' = connected,
         NEW in, in = inbox \/ (inbox[n] # << >> /\ in = Taken(n)),
         NEW ms \in Seq(Message), Counted(ms), failSession(n, u, ms, in),
         route' = route
  PROVE  HandlerNet(n) /\ Placed'
<1>1. n \in Node /\ OtherEnd(n, u) \in Node
  <2>1. n \in Node
    BY DEF Running, Node, FullType, PeerType
  <2> QED  BY <2>1, OtherEndType DEF FullType
<1>2. CASE u \in Sessions(n)
  <2> DEFINE f == Control("failed", u)
             all == Append(ms, f)
  <2>1. Posts(n, OtherEnd(n, u), all, in) /\ Closes(n, u, "failed")
    BY <1>2 DEF failSession
  <2>2. f \in Message /\ f.type # "chunk"
    BY ControlIsMessage DEF Control
  <2> HIDE DEF f
  <2>3. all \in Seq(Message)
        /\ \A i \in 1 .. Len(all) : all[i] = f \/ (i \in 1 .. Len(ms) /\ all[i] = ms[i])
    BY <2>2
  <2> HIDE DEF all
  <2>4. Counted(all)
    BY <2>2, <2>3 DEF Counted
  <2>5. /\ Placed'
        /\ \A p \in Node : p # n => /\ outgoing'[p] = outgoing[p]
                                    /\ incoming'[p] = incoming[p]
    BY <1>1, <2>1, ClosesSteady
  <2> QED  BY <1>1, <2>1, <2>3, <2>4, <2>5 DEF HandlerNet
<1>3. CASE u \notin Sessions(n)
  <2>1. UNCHANGED sessionVars /\ Posts(n, OtherEnd(n, u), ms, in)
    BY <1>3 DEF failSession
  <2> QED  BY <1>1, <2>1 DEF HandlerNet, Placed, sessionVars
<1> QED  BY <1>2, <1>3

\* Ignoring a message that is not of data.
LEMMA IgnoresTurns ==
  ASSUME FullType, Turns, NEW n \in Node, inbox[n] # << >>,
         Head(inbox[n]).type \notin DataTypes, Ignores(n), UNCHANGED idVars,
         connected' = connected
  PROVE  Turns'
<1>1. /\ inbox' = Taken(n) /\ upstream' = upstream /\ UNCHANGED sessionVars
      /\ route' = route /\ drawn' = drawn
  BY DEF Ignores, idVars
<1>2. ASSUME NEW t \in 1 .. drawn PROVE Turn(t)'
  <2>1. t \in Id /\ Turn(t)
    BY StateTypes DEF Turns
  <2>2. MaybeTaken(n, t, Taken(n))
    BY DEF MaybeTaken, IsData
  <2>3. Alike(t)
    BY <1>1, <2>1, <2>2, SilentAlike
  <2> QED  BY <1>1, <2>1, <2>3, KeptSteady, TurnKept
<1>3. HandlerNet(n)
  BY <1>1, HasMail DEF HandlerNet, Turns, sessionVars
<1>4. Linked' /\ AllCounted'
  BY <1>3, HandlerKeeps DEF Turns, FullType
<1>5. Placed'
  BY <1>1 DEF Turns, Placed, sessionVars
<1> QED  BY <1>1, <1>2, <1>4, <1>5 DEF Turns

\* An offer is the first message of its transfer.
LEMMA OfferTurns ==
  ASSUME FullType, Slots, Agree, Turns, NEW n \in Running, NEW to \in Node,
         n # to, NEW request, NEW in,
         \/ in = inbox
         \/ inbox[n] # << >> /\ in = Taken(n) /\ Head(inbox[n]).type \notin DataTypes,
         offerLocalFiles(n, to, request, in), connected' = connected
  PROVE  Turns'
<1>0. PICK u : u = drawn + 1
  OBVIOUS
<1> DEFINE ms == <<Control("offer", u)>>
<1>1. /\ drawn' = u /\ Posts(n, to, ms, in)
      /\ route' = [route EXCEPT ![u] = [source |-> n, target |-> to,
                                        request |-> request]]
      /\ phase' = [phase EXCEPT ![n][u] = "awaitingDecision"]
      /\ outgoing' = outgoing /\ incoming' = incoming
  BY <1>0 DEF offerLocalFiles
<1>2. u \in Id /\ drawn \in Nat /\ n \in Node
  BY <1>0, BoundAssumption DEF offerLocalFiles, FullType, IdType, Id, PeerType, Running,
                         Node
<1>3. u = drawn + 1 /\ u \notin 1 .. drawn
  BY <1>0, <1>2
<1>4. /\ ms \in Seq(Message) /\ Counted(ms) /\ \A t : t # u => ~Tok(ms, t)
      /\ \A t : \A i \in 1 .. Len(ms) : ~IsData(ms[i], t)
  <2>1. Control("offer", u) \in Message
    BY <1>2, ControlIsMessage
  <2>2. ms \in Seq(Message) /\ \A i \in 1 .. Len(ms) : ms[i] = Control("offer", u)
    BY <2>1
  <2> QED  BY <2>2, NotData DEF DataTypes
<1>5. \A t : MaybeTaken(n, t, in)
  BY DEF MaybeTaken, IsData
<1> HIDE DEF ms
<1>6. ASSUME NEW t \in 1 .. drawn PROVE Turn(t)'
  <2>1. t \in Id /\ Turn(t) /\ t # u
    BY <1>3, StateTypes DEF Turns
  <2>2. Alike(t)
    BY <1>1, <1>2, <1>4, <1>5, <2>1, PostsAlike
  <2>3. Steady(t)
    <3>1. route'[t] = route[t] /\ \A p \in Node : phase'[p][t] = phase[p][t]
      BY <1>1, <2>1 DEF FullType, IdType, SessionType
    <3> QED  BY <1>1, <2>1, <3>1, RouteEnds DEF Steady
  <2> QED  BY <2>1, <2>2, <2>3, TurnKept
<1>7. Turn(u)'
  <2>1. route'[u].source = n /\ route'[u].target = to
    BY <1>1, <1>2 DEF FullType, IdType
  <2>2. \A p \in Node : Marks(inbox[p], u) = {}
    <3>1. ASSUME NEW p \in Node, NEW i \in 1 .. Len(inbox[p]) PROVE ~IsData(inbox[p][i], u)
      <4>1. Sound(phase, outgoing, route, drawn, inbox[p][i], p)
        BY DEF Agree, Mail
      <4> QED  BY <1>3, <4>1 DEF Sound, IsData, DataTypes
    <3> QED  BY <3>1, NoMarks
  <2>3. \A c \in Conn : Marks(upstream[c], u) = {}
    <3>1. ASSUME NEW c \in Conn, NEW i \in 1 .. Len(upstream[c])
          PROVE  ~IsData(upstream[c][i], u)
      <4>1. SoundUp(phase, outgoing, route, drawn, upstream[c][i], c)
        BY DEF Agree, Mail
      <4> QED  BY <1>3, <4>1 DEF SoundUp, Sound, IsData, DataTypes
    <3> QED  BY <3>1, NoMarks
  <2>4. /\ \A c \in Conn : Like(upstream[c], upstream'[c], u)
        /\ \A p \in Node : Like(inbox[p], inbox'[p], u)
    <3>1. NetType
      BY DEF FullType
    <3>2. /\ in \in [Node -> Seq(Message)]
          /\ \A p \in Node : Like(inbox[p], in[p], u)
      BY <1>2, <1>5, <3>1, MaybeTakenAlike
    <3> QED  BY <1>1, <1>2, <1>4, <3>1, <3>2, PostsLike
  <2>5. NoData(u)'
    <3>1. Marks(inbox'[to], u) = {}
      BY <2>2, <2>4 DEF Like
    <3>2. Marks(Unrouted(upstream', n), u) = {}
      BY <2>3, <2>4, EmptyRun DEF Unrouted, Like
    <3> QED  BY <2>1, <3>1, <3>2 DEF NoData
  <2>6. incoming[to].id # u
    <3>1. phase[to][u] = "none"
      BY <1>2, <1>3 DEF Agree, Ends, Roles
    <3> QED  BY <1>2, <3>1 DEF Slots, Slot
  <2> QED  BY <1>1, <2>1, <2>5, <2>6 DEF Turn
<1>8. HandlerNet(n)
  <2>1. in = inbox \/ (inbox[n] # << >> /\ in = Taken(n))
    OBVIOUS
  <2> QED  BY <1>1, <1>4, <2>1 DEF HandlerNet
<1>9. Linked' /\ AllCounted'
  BY <1>2, <1>8, HandlerKeeps DEF Turns, FullType
<1>10. Placed'
  BY <1>1 DEF Turns, Placed
<1>11. \A t \in 1 .. drawn' : Turn(t)'
  <2>1. \A t \in 1 .. u : t \in 1 .. drawn \/ t = u
    BY <1>2, <1>3
  <2> QED  BY <1>1, <1>6, <1>7, <2>1
<1> QED  BY <1>9, <1>10, <1>11 DEF Turns

\* While an offer or its answer is under way, no data are.
LEMMA HandleOfferTurns ==
  ASSUME FullType, Slots, Agree, Turns, NEW n \in Node, NEW w \in BOOLEAN,
         handleOffer(n, w)
  PROVE  Turns'
<1>0. PICK m : m = Head(inbox[n])
  OBVIOUS
<1> DEFINE u == m.id
           to == OtherEnd(n, u)
           fresh == [id |-> u, state |-> "awaitingBegin", item |-> 0, chunk |-> 0]
<1>1. /\ inbox[n] # << >> /\ m.type = "offer" /\ m \in Message
      /\ UNCHANGED idVars /\ connected' = connected
  BY <1>0, TakenType DEF handleOffer, Receives, FullType, peerVars
<1>2. u \in Id /\ route' = route /\ drawn' = drawn
  BY <1>1, MessageFields DEF idVars
<1>3. Sound(phase, outgoing, route, drawn, m, n)
  BY <1>0, <1>1, Takes
<1>4. u \in 1 .. drawn /\ n = route[u].target /\ phase[route[u].source][u] # "sending"
  BY <1>1, <1>3 DEF Sound, Token
<1>5. ~NoToken(upstream, inbox, u)
  <2>1. Tok(inbox[n], u)
    BY <1>0, <1>1, TailElements DEF FullType, NetType, Tok, Token
  <2> QED  BY <2>1 DEF NoToken
<1>6. \A t : MaybeTaken(n, t, Taken(n))
  BY <1>0, <1>1 DEF MaybeTaken, IsData, DataTypes
<1>7. n \in Running /\ to \in Node
  BY <1>1, <1>2, HasMail, OtherEndType DEF Turns, FullType
<1> HIDE DEF u
<1>8. CASE Ignores(n)
  BY <1>0, <1>1, <1>8, IgnoresTurns DEF DataTypes
<1>9. \A y \in {"accept", "reject"} :
        /\ <<Control(y, u)>> \in Seq(Message) /\ Counted(<<Control(y, u)>>)
        /\ \A t : \A i \in 1 .. Len(<<Control(y, u)>>) :
             ~IsData(<<Control(y, u)>>[i], t)
        /\ \A t : Tok(<<Control(y, u)>>, t) => ~NoToken(upstream, inbox, t)
  <2> SUFFICES ASSUME NEW y \in {"accept", "reject"}
               PROVE  /\ <<Control(y, u)>> \in Seq(Message) /\ Counted(<<Control(y, u)>>)
                      /\ \A t : \A i \in 1 .. Len(<<Control(y, u)>>) :
                           ~IsData(<<Control(y, u)>>[i], t)
                      /\ \A t : Tok(<<Control(y, u)>>, t) =>
                                  ~NoToken(upstream, inbox, t)
    OBVIOUS
  <2> DEFINE c == Control(y, u)
  <2>1. c \in Message /\ Counted(<<c>>)
    BY <1>2, NotData, ControlIsMessage
  <2>2. \A t : ~IsData(c, t)
    BY NotData DEF DataTypes
  <2>3. \A t : t # u => ~Tok(<<c>>, t)
    BY NotData
  <2> HIDE DEF c
  <2>4. <<c>> \in Seq(Message) /\ \A i \in 1 .. Len(<<c>>) : <<c>>[i] = c
    BY <2>1
  <2>5. \A t : Tok(<<c>>, t) => ~NoToken(upstream, inbox, t)
    BY <1>5, <2>3
  <2>6. \A t : \A i \in 1 .. Len(<<c>>) : ~IsData(<<c>>[i], t)
    BY <2>2, <2>4
  <2> QED  BY <2>1, <2>4, <2>5, <2>6 DEF c
<1>10. ASSUME NEW x, x # "awaitingDecision", phase' = [phase EXCEPT ![n][u] = x],
              UNCHANGED <<outgoing, incoming>>,
              \/ inbox' = Taken(n) /\ upstream' = upstream
              \/ Posts(n, to, <<Control("reject", u)>>, Taken(n))
       PROVE  Turns'
  <2>1. ASSUME NEW t \in 1 .. drawn PROVE Turn(t)'
    <3>1. t \in Id /\ Turn(t)
      BY StateTypes DEF Turns
    <3>2. Alike(t)
      <4>1. CASE inbox' = Taken(n) /\ upstream' = upstream
        BY <1>6, <3>1, <4>1, SilentAlike
      <4>2. CASE Posts(n, to, <<Control("reject", u)>>, Taken(n))
        <5> DEFINE ms == <<Control("reject", u)>>
        <5>1. /\ ms \in Seq(Message) /\ \A i \in 1 .. Len(ms) : ~IsData(ms[i], t)
              /\ Tok(ms, t) => ~NoToken(upstream, inbox, t)
              /\ Posts(n, to, ms, Taken(n))
          BY <1>9, <4>2
        <5> HIDE DEF ms
        <5> QED  BY <1>6, <1>7, <3>1, <5>1, PostsAlike
      <4> QED  BY <1>10, <4>1, <4>2
    <3>3. \A p \in Node, v \in Id : phase'[p][v] = phase[p][v] \/ phase'[p][v] = x
      BY <1>10 DEF FullType, SessionType
    <3>4. Steady(t)
      BY <1>2, <1>10, <3>1, <3>3, RouteEnds DEF Steady
    <3> QED  BY <3>1, <3>2, <3>4, TurnKept
  <2>2. HandlerNet(n)
    BY <1>1, <1>7, <1>9, <1>10 DEF HandlerNet
  <2>3. Linked' /\ AllCounted'
    BY <2>2, HandlerKeeps DEF Turns, FullType
  <2>4. Placed'
    BY <1>10 DEF Turns, Placed
  <2> QED  BY <1>2, <2>1, <2>3, <2>4 DEF Turns
<1>11. ASSUME phase' = [phase EXCEPT ![n][u] = "awaitingData"],
              incoming' = [incoming EXCEPT ![n] = fresh], outgoing' = outgoing,
              Posts(n, to, <<Control("accept", u)>>, Taken(n))
       PROVE  Turns'
  <2> DEFINE ms == <<Control("accept", u)>>
  <2>1. /\ ms \in Seq(Message) /\ Counted(ms)
        /\ \A t : \A i \in 1 .. Len(ms) : ~IsData(ms[i], t)
        /\ \A t : Tok(ms, t) => ~NoToken(upstream, inbox, t)
        /\ Posts(n, to, ms, Taken(n))
    BY <1>9, <1>11
  <2> HIDE DEF ms
  <2>2. /\ incoming'[n] = fresh
        /\ \A p \in Node : p # n => incoming'[p] = incoming[p]
        /\ \A p \in Node, v \in Id :
             phase'[p][v] = phase[p][v] \/ phase'[p][v] = "awaitingData"
    BY <1>11 DEF FullType, SessionType
  <2>3. \A t \in Id : Alike(t)
    BY <1>6, <1>7, <2>1, PostsAlike
  <2>4. ASSUME NEW t \in 1 .. drawn, t # u PROVE Turn(t)'
    <3>1. t \in Id /\ Turn(t)
      BY StateTypes DEF Turns
    <3>2. Steady(t)
      BY <1>2, <1>11, <2>2, <2>4, <3>1, RouteEnds DEF Steady
    <3> QED  BY <2>3, <3>1, <3>2, TurnKept
  <2>5. Turn(u)'
    <3> DEFINE s == route[u].source
    <3>1. route'[u].source = s /\ route'[u].target = n /\ s \in Node
      BY <1>2, <1>4, RouteEnds
    <3>2. NoData(u)
      BY <1>4, <1>5 DEF Turns, Turn
    <3>3. Marks(inbox'[n], u) = {} /\ Marks(Unrouted(upstream', s), u) = {}
      BY <1>2, <1>4, <2>3, <3>2 DEF Alike, NoData, Like
    <3>4. NoData(u)'
      BY <3>1, <3>3 DEF NoData
    <3>5. Due(u)' = {}
      <4>1. outgoing[s].id # u
        <5>1. outgoing[s].id = u => outgoing[s] # NoReader
          BY <1>2 DEF NoReader, Id
        <5> QED  BY <1>4, <3>1, <5>1 DEF Slots, Slot
      <4> QED  BY <1>11, <3>1, <4>1 DEF Due
    <3>6. Flow(inbox'[n], Unrouted(upstream', s), u, Expected(incoming'[n]), {})
      BY <3>3, FlowStarts
    <3> QED  BY <2>2, <3>1, <3>4, <3>5, <3>6 DEF Turn
  <2>6. HandlerNet(n)
    BY <1>1, <1>7, <1>11, <2>1, <2>2 DEF HandlerNet
  <2>7. Linked' /\ AllCounted'
    BY <2>6, HandlerKeeps DEF Turns, FullType
  <2>8. Placed'
    <3>1. InPlace(fresh)
      BY DEF InPlace
    <3> HIDE DEF fresh
    <3>2. ASSUME NEW p \in Node PROVE incoming'[p] = NoWriter \/ InPlace(incoming'[p])
      BY <2>2, <3>1 DEF Turns, Placed
    <3> QED  BY <3>2 DEF Placed
  <2> QED  BY <1>2, <2>4, <2>5, <2>7, <2>8 DEF Turns
<1> QED
  BY <1>0, <1>8, <1>10, <1>11 DEF handleOffer, u

\* No token is under way of a transfer whose source sends.
LEMMA SendingNoToken ==
  ASSUME NEW ph, NEW og, NEW rt, NEW dr, NEW up, NEW in, NEW t,
         Mail(ph, og, rt, dr, up, in), ph[rt[t].source][t] = "sending"
  PROVE  NoToken(up, in, t)
<1>1. ASSUME NEW m, NEW n, Sound(ph, og, rt, dr, m, n), m.type \in Token
      PROVE  m.id # t
  BY <1>1 DEF Sound, Token
<1>2. ASSUME NEW m, NEW n, SoundUp(ph, og, rt, dr, m, n), m.type \in Token
      PROVE  m.id # t
  BY <1>1, <1>2 DEF SoundUp, Token
<1>3. ASSUME NEW n \in Node PROVE ~Tok(in[n], t)
  BY <1>1 DEF Mail, Tok
<1>4. ASSUME NEW c \in Conn PROVE ~Tok(up[c], t)
  BY <1>2 DEF Mail, Tok
<1> QED  BY <1>3, <1>4 DEF NoToken

\* Data that carry on are sent to a target that is reached.
LEMMA PostsFlow ==
  ASSUME NetType, NEW n \in Node, NEW r \in Node, Reaches(n, r), NEW t, NEW p,
         NEW e \in Int \X Int, NEW E2 \in SUBSET (Int \X Int),
         Flow(inbox[r], Unrouted(upstream, n), t, p, {e}),
         NEW ms \in Seq(Message), Run(ms, t, {e}),
         \A x \in Marks(ms, t) : ~Below(x, e),
         \A f \in E2 : /\ Below(e, f) /\ f \in After(Marks(ms, t))
                       /\ \A x \in Marks(ms, t) : Below(x, f),
         NEW in \in [Node -> Seq(Message)], in[r] = inbox[r], Posts(n, r, ms, in)
  PROVE  Flow(inbox'[r], Unrouted(upstream', n), t, p, E2)
<1> DEFINE q1 == inbox[r]
           q2 == Unrouted(upstream, n)
<1>1. q1 \in Seq(Message) /\ q2 \in Seq(Message)
  BY DEF NetType, Unrouted
<1> HIDE DEF q1, q2
<1>2. /\ Flow(q1, q2 \o ms, t, p, E2)
      /\ q2 = << >> => Flow(q1 \o ms, q2, t, p, E2)
  BY <1>1, FlowSent DEF q1, q2
<1>3. CASE n # Primary
  <2>1. n \in Conn
    BY <1>3 DEF Node
  <2>2. inbox' = in /\ upstream' = [upstream EXCEPT ![n] = @ \o ms]
    BY <1>3 DEF Posts
  <2>3. inbox'[r] = q1 /\ Unrouted(upstream', n) = q2 \o ms
    BY <2>1, <2>2 DEF q1, q2, NetType, Unrouted
  <2> QED  BY <1>2, <2>3
<1>4. CASE n = Primary
  <2>1. inbox' = [in EXCEPT ![r] = @ \o ms] /\ upstream' = upstream
    BY <1>4 DEF Posts
  <2>2. inbox'[r] = q1 \o ms /\ Unrouted(upstream', n) = q2 /\ q2 = << >>
    BY <1>4, <2>1, PrimaryIsNoClient DEF q1, q2, Unrouted
  <2> QED  BY <1>2, <2>2
<1> QED  BY <1>3, <1>4

LEMMA BeginRun ==
  ASSUME NEW t \in Id
  PROVE  /\ <<Begin(t)>> \in Seq(Message)
         /\ Run(<<Begin(t)>>, t, {<<0, 0>>}) /\ Marks(<<Begin(t)>>, t) = {<<0, 0>>}
         /\ <<0, 0>> \in Int \X Int /\ ~Below(<<0, 0>>, <<0, 0>>)
         /\ <<1, 0>> \in Int \X Int /\ Below(<<0, 0>>, <<1, 0>>)
         /\ After(Marks(<<Begin(t)>>, t)) = {<<1, 0>>}
<1>1. Begin(t) \in Message /\ IsData(Begin(t), t) /\ Mark(Begin(t)) = <<0, 0>>
  BY DEF Begin, Message, IsData, DataTypes, Mark
<1>2. <<Begin(t)>> \in Seq(Message)
  BY <1>1
<1>3. Run(<<Begin(t)>>, t, {<<0, 0>>}) /\ Marks(<<Begin(t)>>, t) = {<<0, 0>>}
  BY <1>1, OneRun
<1>4. Succ(<<0, 0>>) = <<1, 0>>
  BY DEF Succ
<1>5. After({<<0, 0>>}) = {<<1, 0>>}
  BY <1>4 DEF After
<1>6. ~Below(<<0, 0>>, <<0, 0>>) /\ Below(<<0, 0>>, <<1, 0>>)
  BY DEF Below
<1> QED  BY <1>2, <1>3, <1>5, <1>6

\* An accepted offer is answered with its begin, the first data of it.
LEMMA HandleDecisionTurns ==
  ASSUME FullType, Slots, Agree, Turns, NEW n \in Node, NEW b \in BOOLEAN,
         handleDecision(n, b)
  PROVE  Turns'
<1>0. PICK m : m = Head(inbox[n])
  OBVIOUS
<1> DEFINE u == m.id
           to == OtherEnd(n, u)
<1>1. /\ inbox[n] # << >> /\ m.type \in {"accept", "reject"} /\ m \in Message
      /\ UNCHANGED idVars /\ connected' = connected
  BY <1>0, TakenType DEF handleDecision, Receives, FullType, peerVars
<1>2. u \in Id /\ route' = route /\ drawn' = drawn
  BY <1>1, MessageFields DEF idVars
<1>3. Sound(phase, outgoing, route, drawn, m, n)
      /\ NoToken(upstream, Taken(n), u)
  BY <1>0, <1>1, Takes DEF Token
<1>4. /\ u \in 1 .. drawn /\ n = route[u].source
      /\ route[u].source # route[u].target
  BY <1>1, <1>3 DEF Sound, Agree, Ends, Beliefs
<1>5. \A t : MaybeTaken(n, t, Taken(n))
  BY <1>0, <1>1 DEF MaybeTaken, IsData, DataTypes
<1>6. n \in Running /\ to \in Node
  BY <1>1, <1>2, HasMail, OtherEndType DEF Turns, FullType
<1>7. inbox[n] # << >> /\ Taken(n) \in [Node -> Seq(Message)]
  BY <1>1, TakenType DEF FullType
<1> HIDE DEF u
<1>8. CASE Ignores(n)
  BY <1>0, <1>1, <1>8, IgnoresTurns DEF DataTypes
<1>9. CASE failSession(n, u, << >>, Taken(n))
  <2> DEFINE ms == << >>
  <2>1. /\ ms \in Seq(Message) /\ Counted(ms) /\ failSession(n, u, ms, Taken(n))
        /\ \A t : \A i \in 1 .. Len(ms) : ~IsData(ms[i], t) /\ ms[i].type \notin Token
    BY <1>9, NotData
  <2> HIDE DEF ms
  <2>2. ASSUME NEW t \in 1 .. drawn PROVE Turn(t)'
    <3>1. t \in Id /\ Turn(t)
      BY StateTypes DEF Turns
    <3>2. MaybeTaken(n, t, Taken(n)) /\ route' = route
      BY <1>2, <1>5
    <3> QED  BY <1>2, <2>1, <3>1, <3>2, FailTurn
  <2>3. HandlerNet(n) /\ Placed'
    <3>1. Placed
      BY DEF Turns
    <3>2. connected' = connected /\ route' = route
      BY <1>1, <1>2
    <3>3. Taken(n) = inbox \/ (inbox[n] # << >> /\ Taken(n) = Taken(n))
      BY <1>7
    <3> QED  BY <1>2, <1>6, <2>1, <3>1, <3>2, <3>3, FailNet
  <2>4. Linked' /\ AllCounted'
    BY <2>3, HandlerKeeps DEF Turns, FullType
  <2> QED  BY <1>2, <2>2, <2>3, <2>4 DEF Turns
<1>10. CASE /\ phase' = [phase EXCEPT ![n][u] = "rejected"]
            /\ inbox' = Taken(n) /\ UNCHANGED <<upstream, outgoing, incoming>>
  <2>1. ASSUME NEW t \in 1 .. drawn PROVE Turn(t)'
    <3>1. t \in Id /\ Turn(t)
      BY StateTypes DEF Turns
    <3>2. Alike(t)
      BY <1>5, <1>10, <3>1, SilentAlike
    <3>3. \A p \in Node, v \in Id : phase'[p][v] = phase[p][v] \/ phase'[p][v] = "rejected"
      BY <1>10 DEF FullType, SessionType
    <3>4. Steady(t)
      BY <1>2, <1>10, <3>1, <3>3, RouteEnds DEF Steady
    <3> QED  BY <3>1, <3>2, <3>4, TurnKept
  <2>2. HandlerNet(n)
    BY <1>1, <1>6, <1>10 DEF HandlerNet
  <2>3. Linked' /\ AllCounted'
    BY <2>2, HandlerKeeps DEF Turns, FullType
  <2>4. Placed'
    BY <1>10 DEF Turns, Placed
  <2> QED  BY <1>2, <2>1, <2>3, <2>4 DEF Turns
<1>11. ASSUME AwaitsDecision(n, u), Reaches(n, to),
              phase' = [phase EXCEPT ![n][u] = "sending"],
              outgoing' = [outgoing EXCEPT ![n] = [id |-> u, item |-> 0, chunk |-> 0]],
              Posts(n, to, <<Begin(u)>>, Taken(n)), incoming' = incoming
       PROVE  Turns'
  <2> DEFINE ms == <<Begin(u)>>
             r == route[u].target
  <2>1. /\ ms \in Seq(Message) /\ Counted(ms) /\ Posts(n, to, ms, Taken(n))
        /\ \A t : ~Tok(ms, t)
        /\ \A t : t # u => \A i \in 1 .. Len(ms) : ~IsData(ms[i], t)
        /\ Run(ms, u, {<<0, 0>>}) /\ Marks(ms, u) = {<<0, 0>>}
        /\ After(Marks(ms, u)) = {<<1, 0>>}
    <3>1. \A i \in 1 .. Len(ms) : ms[i] = Begin(u)
      OBVIOUS
    <3>2. \A t : ~Tok(ms, t)
      BY <3>1 DEF Tok, Begin, Token
    <3>3. \A t : t # u => \A i \in 1 .. Len(ms) : ~IsData(ms[i], t)
      BY <3>1, NotData
    <3> QED  BY <1>2, <1>11, <3>2, <3>3, BeginRun, NotData
  <2> HIDE DEF ms
  <2>2. /\ outgoing'[n] = [id |-> u, item |-> 0, chunk |-> 0] /\ phase'[n][u] = "sending"
        /\ \A p \in Node : p # n => outgoing'[p] = outgoing[p]
        /\ \A p \in Node, v \in Id :
             phase'[p][v] = phase[p][v] \/ phase'[p][v] = "sending"
    BY <1>2, <1>11 DEF FullType, SessionType
  <2>3. ASSUME NEW t \in 1 .. drawn, t # u PROVE Turn(t)'
    <3>1. t \in Id /\ Turn(t)
      BY StateTypes DEF Turns
    <3>2. Alike(t)
      BY <1>5, <1>6, <2>1, <2>3, <3>1, PostsAlike
    <3>3. Steady(t)
      BY <1>2, <1>11, <2>2, <2>3, <3>1, RouteEnds DEF Steady
    <3> QED  BY <3>1, <3>2, <3>3, TurnKept
  <2>4. Turn(u)'
    <3>1. r \in Node /\ to = r /\ r # n /\ route'[u].source = n /\ route'[u].target = r
      BY <1>2, <1>4, RouteEnds DEF OtherEnd
    <3>2. NoToken(upstream', inbox', u)
      BY <1>3, <1>6, <1>7, <2>1, PostsTokens DEF FullType
    <3>3. ASSUME incoming'[r].id = u
          PROVE  Flow(inbox'[r], Unrouted(upstream', n), u, Expected(incoming'[r]), Due(u)')
      <4>1. NoData(u) /\ incoming[r].state = "awaitingBegin"
        BY <1>4, <1>11, <3>3 DEF Turns, Turn, AwaitsDecision
      <4>2. Expected(incoming'[r]) = <<0, 0>>
        BY <1>11, <4>1 DEF Expected
      <4>3. Flow(inbox[r], Unrouted(upstream, n), u, <<0, 0>>, {<<0, 0>>})
        BY <1>4, <4>1, FlowStarts DEF NoData
      <4>4. Due(u)' = {<<1, 0>>}
        BY <2>2, <3>1 DEF Due, Coming
      <4>5. Taken(n)[r] = inbox[r]
        BY <3>1 DEF Taken, FullType, NetType
      <4>6. /\ <<0, 0>> \in Int \X Int /\ {<<1, 0>>} \in SUBSET (Int \X Int)
            /\ \A x \in Marks(ms, u) : ~Below(x, <<0, 0>>)
            /\ \A f \in {<<1, 0>>} : /\ Below(<<0, 0>>, f) /\ f \in After(Marks(ms, u))
                                     /\ \A x \in Marks(ms, u) : Below(x, f)
        BY <1>2, <2>1, BeginRun
      <4>7. Posts(n, r, ms, Taken(n)) /\ Reaches(n, r) /\ NetType
        BY <1>11, <2>1, <3>1 DEF FullType
      <4>8. Flow(inbox'[r], Unrouted(upstream', n), u, <<0, 0>>, {<<1, 0>>})
        BY ONLY <1>7, n \in Node, <2>1, <3>1, <4>3, <4>5, <4>6, <4>7, PostsFlow
      <4> QED  BY <4>2, <4>4, <4>8
    <3> QED  BY <2>2, <3>1, <3>2, <3>3 DEF Turn
  <2>5. HandlerNet(n)
    BY <1>1, <1>6, <1>11, <2>1, <2>2 DEF HandlerNet
  <2>6. Linked' /\ AllCounted'
    BY <2>5, HandlerKeeps DEF Turns, FullType
  <2>7. Placed'
    BY <1>11 DEF Turns, Placed
  <2> QED  BY <1>2, <2>3, <2>4, <2>6, <2>7 DEF Turns
<1> QED
  BY <1>0, <1>8, <1>9, <1>10, <1>11 DEF handleDecision, u

LEMMA KeptTurns ==
  ASSUME Turns, UNCHANGED <<idVars, sessionVars, netVars>>,
         connected \subseteq connected'
  PROVE  Turns'
<1>1. /\ inbox' = inbox /\ upstream' = upstream /\ route' = route /\ drawn' = drawn
      /\ phase' = phase /\ outgoing' = outgoing /\ incoming' = incoming
  BY DEF idVars, sessionVars, netVars
<1> QED
  BY <1>1 DEF Turns, Turn, NoData, NoToken, Due, Unrouted, Placed, AllCounted, Linked,
              Unlinked

\* What a handler has to keep.
LEMMA HandlerTurns ==
  ASSUME FullType, Turns, NEW n \in Node, HandlerNet(n), UNCHANGED idVars,
         \A t \in 1 .. drawn : Turn(t)', Placed'
  PROVE  Turns'
BY HandlerKeeps DEF Turns, FullType, idVars

\* A reader's pieces carry on from what it has sent.
LEMMA PiecesFlow ==
  ASSUME NetType, NEW n \in Node, NEW r \in Node, Reaches(n, r), NEW o \in Reader,
         NEW p, Flow(inbox[r], Unrouted(upstream, n), o.id, p, {Coming(o)}),
         NEW ms \in Seq(Message), Like(Pieces(o), ms, o.id),
         Posts(n, r, ms, inbox)
  PROVE  /\ Flow(inbox'[r], Unrouted(upstream', n), o.id, p, {})
         /\ Advance(o) # NoReader =>
              Flow(inbox'[r], Unrouted(upstream', n), o.id, p, {Coming(Advance(o))})
<1>0. PICK t : t = o.id
  OBVIOUS
<1>1. PICK e : e = Coming(o)
  OBVIOUS
<1>2. PICK f : f = Coming(Advance(o))
  OBVIOUS
<1>3. /\ Run(ms, t, {e}) /\ e \in Int \X Int
      /\ Marks(ms, t) = Marks(Pieces(o), t) /\ \A x \in Marks(ms, t) : ~Below(x, e)
      /\ Advance(o) # NoReader =>
           /\ f \in Int \X Int /\ Below(e, f) /\ f \in After(Marks(ms, t))
           /\ \A x \in Marks(ms, t) : Below(x, f)
  BY <1>0, <1>1, <1>2, PiecesRun DEF Like
<1>4. /\ inbox \in [Node -> Seq(Message)] /\ inbox[r] = inbox[r]
      /\ Flow(inbox[r], Unrouted(upstream, n), t, p, {e})
  BY <1>0, <1>1 DEF NetType
<1>5. ASSUME NEW E2 \in SUBSET (Int \X Int),
             \A g \in E2 : /\ Below(e, g) /\ g \in After(Marks(ms, t))
                           /\ \A x \in Marks(ms, t) : Below(x, g)
      PROVE  Flow(inbox'[r], Unrouted(upstream', n), t, p, E2)
  <2>1. /\ e \in Int \X Int /\ Run(ms, t, {e})
        /\ \A x \in Marks(ms, t) : ~Below(x, e)
    BY <1>3
  <2> QED
    BY ONLY NetType, n \in Node, r \in Node, Reaches(n, r), ms \in Seq(Message),
       Posts(n, r, ms, inbox), <1>4, <1>5, <2>1, PostsFlow
<1>6. Flow(inbox'[r], Unrouted(upstream', n), t, p, {})
  <2>1. {} \in SUBSET (Int \X Int)
    OBVIOUS
  <2> QED  BY <1>5, <2>1
<1>7. ASSUME Advance(o) # NoReader
      PROVE  Flow(inbox'[r], Unrouted(upstream', n), t, p, {f})
  <2>1. {f} \in SUBSET (Int \X Int)
    BY <1>3, <1>7
  <2>2. \A g \in {f} : /\ Below(e, g) /\ g \in After(Marks(ms, t))
                       /\ \A x \in Marks(ms, t) : Below(x, g)
    BY <1>3, <1>7
  <2> QED  BY <1>5, <2>1, <2>2
<1> QED  BY <1>0, <1>2, <1>6, <1>7

\* The source reads on and sends.
LEMMA SendNextTurns ==
  ASSUME FullType, Slots, Agree, Turns, NEW n \in Node, NEW rd \in BOOLEAN,
         NEW op \in BOOLEAN, processNextOutgoingChunk(n, rd, op)
  PROVE  Turns'
<1>0. PICK o : o = outgoing[n]
  OBVIOUS
<1>1. UNCHANGED idVars /\ connected' = connected /\ route' = route /\ drawn' = drawn
  BY DEF processNextOutgoingChunk, peerVars, idVars
<1>2. CASE o = NoReader
  BY <1>0, <1>1, <1>2, KeptTurns DEF processNextOutgoingChunk
<1>3. CASE o # NoReader
  <2>0. PICK t : t = o.id
    OBVIOUS
  <2>1. o \in Reader /\ t \in Id /\ phase[n][t] = "sending"
    BY <1>0, <1>3, <2>0, SlotsSuffice
       DEF FullType, SessionType, Reader, ResourcesMatchSessions
  <2>2. t \in Sessions(n)
    BY <2>1 DEF Sessions, Live
  <2>3. PICK r : r = route[t].target
    OBVIOUS
  <2>4. t \in 1 .. drawn /\ n = route[t].source /\ n # r /\ r \in Node
    BY <2>1, <2>2, <2>3, SessionEnds, RouteEnds DEF Agree
  <2>5. OtherEnd(n, t) = r /\ route'[t].source = n /\ route'[t].target = r
    BY <1>1, <2>3, <2>4 DEF OtherEnd
  <2>6. n \in Running
    BY <1>0, <1>3, HasMail DEF Turns
  <2>7. PICK ps : ps = Pieces(o)
    OBVIOUS
  <2>8. /\ ps \in Seq(Message) /\ Counted(ps)
        /\ \A i \in 1 .. Len(ps) : ps[i].id = t /\ ps[i].type \notin Token
    BY <2>0, <2>1, <2>7, PiecesOfReader, PiecesRun DEF Token
  <2>9. \A u : MaybeTaken(n, u, inbox)
    BY DEF MaybeTaken
  <2>10. Due(t) = {Coming(o)}
    BY <1>0, <2>0, <2>4 DEF Due
  <2>11. NoToken(upstream, inbox, t)
    <3>1. Mail(phase, outgoing, route, drawn, upstream, inbox)
      BY DEF Agree
    <3>2. phase[route[t].source][t] = "sending"
      BY <2>1, <2>4
    <3> QED  BY ONLY <3>1, <3>2, SendingNoToken
  <2>12. ASSUME NEW ms \in Seq(Message), Like(ps, ms, t), ~Tok(ms, t), Reaches(n, r),
                Posts(n, r, ms, inbox), incoming'[r] = incoming[r],
                phase'[n][t] # "awaitingDecision",
                \/ Due(t)' = {}
                \/ Advance(o) # NoReader /\ Due(t)' = {Coming(Advance(o))}
         PROVE  Turn(t)'
    <3>1. NoToken(upstream', inbox', t)
      BY <2>4, <2>11, <2>12, PostsTokens DEF FullType, NetType
    <3>2. ASSUME incoming'[r].id = t
          PROVE  Flow(inbox'[r], Unrouted(upstream', n), t, Expected(incoming'[r]),
                      Due(t)')
      <4>1. PICK p : p = Expected(incoming[r])
        OBVIOUS
      <4>2. Flow(inbox[r], Unrouted(upstream, n), t, p, {Coming(o)})
        BY <2>3, <2>4, <2>10, <2>12, <3>2, <4>1 DEF Turns, Turn
      <4>3. /\ Flow(inbox'[r], Unrouted(upstream', n), t, p, {})
            /\ Advance(o) # NoReader =>
                 Flow(inbox'[r], Unrouted(upstream', n), t, p, {Coming(Advance(o))})
        BY <2>0, <2>1, <2>4, <2>7, <2>12, <4>2, PiecesFlow DEF FullType
      <4>4. Expected(incoming'[r]) = p
        BY <2>12, <4>1
      <4> QED  BY <2>12, <4>3, <4>4
    <3> QED  BY <2>5, <2>12, <3>1, <3>2 DEF Turn
  <2>13. CASE failSession(n, t, << >>, inbox)
    <3> DEFINE ms == << >>
    <3>1. /\ ms \in Seq(Message) /\ Counted(ms) /\ failSession(n, t, ms, inbox)
          /\ \A u : \A i \in 1 .. Len(ms) : ~IsData(ms[i], u) /\ ms[i].type \notin Token
      BY <2>13, NotData
    <3> HIDE DEF ms
    <3>2. ASSUME NEW u \in 1 .. drawn PROVE Turn(u)'
      <4>1. u \in Id /\ Turn(u)
        BY StateTypes DEF Turns
      <4> QED  BY <1>1, <2>1, <2>9, <3>1, <4>1, FailTurn
    <3>3. HandlerNet(n) /\ Placed'
      <4>1. Placed /\ inbox = inbox
        BY DEF Turns
      <4> QED  BY <1>1, <2>1, <2>6, <3>1, <4>1, FailNet
    <3> QED  BY <1>1, <3>2, <3>3, HandlerTurns
  <2>14. CASE Reaches(n, r) /\ failSession(n, t, ps, inbox)
    <3>1. ASSUME NEW u \in 1 .. drawn, u # t PROVE Turn(u)'
      <4>1. u \in Id /\ Turn(u)
        BY StateTypes DEF Turns
      <4>2. \A i \in 1 .. Len(ps) : ~IsData(ps[i], u) /\ ps[i].type \notin Token
        BY <2>8, <3>1 DEF IsData
      <4> QED  BY <1>1, <2>1, <2>8, <2>9, <2>14, <4>1, <4>2, FailTurn
    <3>2. Turn(t)'
      <4>1. PICK f : f = Control("failed", t)
        OBVIOUS
      <4>2. f \in Message /\ f.type \notin Token /\ ~IsData(f, t)
        BY <2>1, <4>1, ControlIsMessage, NotData DEF Control, Token, DataTypes
      <4>3. Posts(n, r, Append(ps, f), inbox) /\ Closes(n, t, "failed")
        BY <2>2, <2>5, <2>14, <4>1 DEF failSession
      <4>4. /\ <<f>> \in Seq(Message) /\ Append(ps, f) = ps \o <<f>>
            /\ \A i \in 1 .. Len(<<f>>) : ~IsData(<<f>>[i], t)
            /\ ~Tok(<<f>>, t) /\ ps \o <<f>> \in Seq(Message)
        <5>1. <<f>> \in Seq(Message) /\ \A i \in 1 .. Len(<<f>>) : <<f>>[i] = f
          BY <4>2
        <5>2. ~Tok(<<f>>, t)
          BY <4>2, <5>1 DEF Tok
        <5>3. \A q \in Seq(Message) : ps \o q \in Seq(Message)
          BY <2>8
        <5> QED  BY <2>8, <4>2, <5>1, <5>2, <5>3, AppendJoins
      <4>5. PICK tell : tell = <<f>>
        OBVIOUS
      <4>6. PICK ms : ms = ps \o tell
        OBVIOUS
      <4>7. ~Tok(ps, t)
        BY <2>8 DEF Tok
      <4>8. ms \in Seq(Message) /\ Like(ps, ms, t) /\ ~Tok(ms, t)
        BY <2>8, <4>4, <4>5, <4>6, <4>7, LikeJoin, JoinTok
      <4>9. Posts(n, r, ms, inbox)
        BY <4>3, <4>4, <4>5, <4>6
      <4>10. incoming'[r] = incoming[r]
        BY <1>1, <2>1, <2>4, <4>3, ClosesSteady
      <4>11. outgoing'[n].id # t /\ phase'[n][t] = "failed"
        BY <2>1, <4>3, ClosesOnly
      <4>12. Due(t)' = {}
        BY <2>5, <4>11 DEF Due
      <4> QED  BY <2>12, <2>14, <4>8, <4>9, <4>10, <4>11, <4>12
    <3>3. HandlerNet(n) /\ Placed'
      <4>1. Placed /\ inbox = inbox
        BY DEF Turns
      <4> QED  BY <1>1, <2>1, <2>6, <2>8, <2>14, <4>1, FailNet
    <3>4. \A u \in 1 .. drawn : Turn(u)'
      BY <3>1, <3>2
    <3> QED  BY <1>1, <3>3, <3>4, HandlerTurns
  <2>15. CASE /\ Reaches(n, r)
              /\ outgoing' = [outgoing EXCEPT ![n] = Advance(o)]
              /\ phase' = [phase EXCEPT ![n][t] = PhaseOnceSent(o)]
              /\ Posts(n, r, ps, inbox) /\ incoming' = incoming
    <3>1. /\ outgoing'[n] = Advance(o) /\ phase'[n][t] = "sending"
          /\ \A p \in Node : p # n => outgoing'[p] = outgoing[p]
          /\ \A p \in Node, v \in Id :
               phase'[p][v] = phase[p][v] \/ phase'[p][v] = "sending"
      BY <2>1, <2>15 DEF FullType, SessionType, PhaseOnceSent
    <3>2. Advance(o).id \in {t, 0} /\ Advance(o) \in Reader \union {NoReader}
      BY <2>0, <2>1, AdvanceId, AdvanceType
    <3>3. ASSUME NEW u \in 1 .. drawn, u # t PROVE Turn(u)'
      <4>1. u \in Id /\ Turn(u) /\ u # 0
        BY StateTypes DEF Turns, Id
      <4>2. \A i \in 1 .. Len(ps) : ~IsData(ps[i], u)
        BY <2>8, <3>3 DEF IsData
      <4>3. ~Tok(ps, u)
        BY <2>8 DEF Tok
      <4>4. Alike(u)
        BY <2>4, <2>8, <2>9, <2>15, <4>1, <4>2, <4>3, PostsAlike
      <4>5. Steady(u)
        BY <1>1, <2>15, <3>1, <3>2, <3>3, <4>1, RouteEnds DEF Steady
      <4> QED  BY <4>1, <4>4, <4>5, TurnKept
    <3>4. Turn(t)'
      <4>1. Like(ps, ps, t) /\ ~Tok(ps, t)
        BY <2>8, LikeItself DEF Tok
      <4>2. \/ Due(t)' = {}
            \/ Advance(o) # NoReader /\ Due(t)' = {Coming(Advance(o))}
        <5>1. Due(t)' = IF Advance(o).id = t THEN {Coming(Advance(o))} ELSE {}
          BY <2>5, <3>1 DEF Due
        <5>2. t # 0 /\ NoReader.id = 0
          BY <2>1 DEF Id, NoReader
        <5> QED  BY <5>1, <5>2
      <4> QED  BY <2>8, <2>12, <2>15, <3>1, <4>1, <4>2
    <3>5. HandlerNet(n)
      <4>1. \A p \in Node : p # n => /\ outgoing'[p] = outgoing[p]
                                     /\ incoming'[p] = incoming[p]
        BY <2>15, <3>1
      <4> QED  BY <1>1, <2>4, <2>6, <2>8, <2>15, <4>1 DEF HandlerNet
    <3>6. Placed'
      BY <2>15 DEF Turns, Placed
    <3>7. \A u \in 1 .. drawn : Turn(u)'
      BY <3>3, <3>4
    <3> QED  BY <1>1, <3>5, <3>6, <3>7, HandlerTurns
  <2>16. \/ failSession(n, t, << >>, inbox)
         \/ Reaches(n, r) /\ failSession(n, t, ps, inbox)
         \/ /\ Reaches(n, r)
            /\ outgoing' = [outgoing EXCEPT ![n] = Advance(o)]
            /\ phase' = [phase EXCEPT ![n][t] = PhaseOnceSent(o)]
            /\ Posts(n, r, ps, inbox) /\ incoming' = incoming
    BY <1>0, <1>3, <2>0, <2>5, <2>7 DEF processNextOutgoingChunk
  <2> QED  BY <2>13, <2>14, <2>15, <2>16
<1> QED  BY <1>2, <1>3

\* The target takes data, or the transfer ends there.
LEMMA HandleDataTurns ==
  ASSUME FullType, Slots, Agree, Turns, NEW n \in Node, NEW b \in BOOLEAN,
         handleData(n, b)
  PROVE  Turns'
<1>0. PICK m : m = Head(inbox[n])
  OBVIOUS
<1>1. /\ inbox[n] # << >> /\ m.type \in DataTypes /\ m \in Message
      /\ UNCHANGED idVars /\ connected' = connected
  BY <1>0, TakenType DEF handleData, Receives, FullType, peerVars, DataTypes
<1>2. PICK u : u = m.id
  OBVIOUS
<1>3. /\ u \in Id /\ route' = route /\ drawn' = drawn /\ IsData(m, u)
      /\ inbox[n] \in Seq(Message)
  BY <1>1, <1>2, MessageFields DEF idVars, IsData, DataTypes, FullType, NetType
<1>4. Sound(phase, outgoing, route, drawn, m, n)
  BY <1>0, <1>1, Takes
<1>5. PICK s : s = route[u].source
  OBVIOUS
<1>6. u \in 1 .. drawn /\ n = route[u].target /\ s # n /\ s \in Node
  BY <1>1, <1>2, <1>3, <1>4, <1>5, RouteEnds DEF Sound, Agree, Ends, Beliefs, DataTypes
<1>7. OtherEnd(n, u) = s /\ n \in Running
  BY <1>1, <1>5, <1>6, HasMail DEF OtherEnd, Turns
<1>8. ~NoData(u)
  <2>1. Mark(m) \in Marks(inbox[n], u)
    BY <1>0, <1>1, <1>3, TailMarks
  <2> QED  BY <1>6, <2>1 DEF NoData
<1>9. Turn(u) /\ NoToken(upstream, inbox, u) /\ phase[s][u] # "awaitingDecision"
  BY <1>5, <1>6, <1>8 DEF Turns, Turn
<1>10. Taken(n) \in [Node -> Seq(Message)] /\ NoToken(upstream, Taken(n), u)
  <2>1. /\ Taken(n) \in [Node -> Seq(Message)] /\ Taken(n)[n] = Tail(inbox[n])
        /\ \A p \in Node : p # n => Taken(n)[p] = inbox[p]
    BY <1>1, TakenType DEF Taken, FullType, NetType
  <2>2. \A p \in Node : ~Tok(Taken(n)[p], u)
    BY <1>1, <1>3, <1>9, <2>1, TailTok DEF NoToken
  <2> QED  BY <1>9, <2>1, <2>2 DEF NoToken
<1>11. ASSUME NEW t, t # u PROVE MaybeTaken(n, t, Taken(n))
  BY <1>0, <1>1, <1>2, <1>11 DEF MaybeTaken, IsData
<1>12. CASE Ignores(n) /\ incoming[n].id # u
  <2>1. inbox' = Taken(n) /\ upstream' = upstream /\ UNCHANGED sessionVars
    BY <1>12 DEF Ignores
  <2>2. ASSUME NEW t \in 1 .. drawn, t # u PROVE Turn(t)'
    <3>1. t \in Id /\ Turn(t)
      BY StateTypes DEF Turns
    <3>2. Alike(t)
      BY <1>11, <2>1, <2>2, <3>1, SilentAlike
    <3> QED  BY <1>3, <2>1, <3>1, <3>2, KeptSteady, TurnKept
  <2>3. Turn(u)'
    <3>1. phase' = phase /\ incoming' = incoming
      BY <2>1 DEF sessionVars
    <3>2. NoToken(upstream', inbox', u)
      BY <1>10, <2>1
    <3> QED  BY <1>3, <1>6, <1>8, <1>9, <1>12, <3>1, <3>2, TurnLost
  <2>4. HandlerNet(n)
    BY <1>1, <1>7, <2>1 DEF HandlerNet, sessionVars
  <2>5. Placed'
    BY <2>1 DEF Turns, Placed, sessionVars
  <2>6. \A t \in 1 .. drawn : Turn(t)'
    BY <2>2, <2>3
  <2> QED  BY <1>1, <2>4, <2>5, <2>6, HandlerTurns
<1>13. ASSUME NEW k \in {"completed", "failed"}, Closes(n, u, k),
              Posts(n, s, <<Control(k, u)>>, Taken(n))
       PROVE  Turns'
  <2>1. PICK f : f = Control(k, u)
    OBVIOUS
  <2>2. /\ f \in Message /\ f.type \notin Token /\ f.type # "chunk"
        /\ \A t : ~IsData(f, t)
    BY <1>3, <2>1, ControlIsMessage, NotData DEF Control, Token, DataTypes
  <2>3. PICK ms : ms = <<f>>
    OBVIOUS
  <2>4. ms \in Seq(Message) /\ \A i \in 1 .. Len(ms) : ms[i] = f
    BY <2>2, <2>3
  <2>5. /\ Counted(ms) /\ \A t : ~Tok(ms, t)
        /\ \A t : \A i \in 1 .. Len(ms) : ~IsData(ms[i], t)
    BY <2>2, <2>4 DEF Counted, Tok
  <2>6. Posts(n, s, ms, Taken(n))
    BY <1>13, <2>1, <2>3
  <2>7. /\ \A t \in Id : Steady(t)
        /\ incoming'[n].id # u
        /\ Placed => Placed'
        /\ \A p \in Node : p # n => /\ outgoing'[p] = outgoing[p]
                                    /\ incoming'[p] = incoming[p]
    BY <1>3, <1>13, ClosesSteady
  <2>8. ASSUME NEW t \in 1 .. drawn, t # u PROVE Turn(t)'
    <3>1. t \in Id /\ Turn(t)
      BY StateTypes DEF Turns
    <3>2. Alike(t)
      BY <1>6, <1>11, <2>4, <2>5, <2>6, <2>8, <3>1, PostsAlike
    <3> QED  BY <2>7, <3>1, <3>2, TurnKept
  <2>9. Turn(u)'
    <3>1. NoToken(upstream', inbox', u)
      BY <1>6, <1>10, <2>4, <2>5, <2>6, PostsTokens DEF FullType
    <3>2. phase'[s][u] = "awaitingDecision" => phase[s][u] = "awaitingDecision"
      BY <1>3, <1>5, <2>7 DEF Steady
    <3> QED  BY <1>3, <1>5, <1>6, <1>8, <1>9, <2>7, <3>1, <3>2, TurnLost
  <2>10. HandlerNet(n)
    BY <1>1, <1>6, <1>7, <2>4, <2>5, <2>6, <2>7 DEF HandlerNet
  <2>11. \A t \in 1 .. drawn : Turn(t)'
    BY <2>8, <2>9
  <2> QED  BY <1>1, <2>7, <2>10, <2>11, HandlerTurns DEF Turns
<1>14. CASE /\ incoming[n].id = u /\ Accepts(incoming[n], m) /\ m.type # "finish"
            /\ incoming' = [incoming EXCEPT ![n] = Written(incoming[n], m)]
            /\ phase' = [phase EXCEPT ![n][u] = "receiving"]
            /\ inbox' = Taken(n) /\ upstream' = upstream /\ outgoing' = outgoing
  <2>1. PICK w : w = incoming[n]
    OBVIOUS
  <2>2. w \in Writer /\ InPlace(w)
    <3>1. u # 0
      BY <1>3 DEF Id
    <3>2. w # NoWriter
      BY <1>14, <2>1, <3>1 DEF NoWriter
    <3> QED  BY <2>1, <3>2 DEF FullType, SessionType, Turns, Placed
  <2>3. InPlace(Written(w, m)) /\ Expected(Written(w, m)) = Succ(Expected(w))
    BY <1>1, <1>14, <2>1, <2>2, WriterMoves
  <2>4. /\ incoming'[n] = Written(w, m)
        /\ \A p \in Node : p # n => /\ incoming'[p] = incoming[p]
                                    /\ phase'[p] = phase[p]
        /\ \A p \in Node, v \in Id :
             phase'[p][v] = phase[p][v] \/ phase'[p][v] = "receiving"
    BY <1>14, <2>1 DEF FullType, SessionType
  <2>5. Written(w, m).id = u
    <3>1. w = [id |-> w.id, state |-> w.state, item |-> w.item, chunk |-> w.chunk]
      BY <2>2 DEF Writer
    <3> QED  BY <1>14, <2>1, <3>1 DEF Written
  <2>6. ASSUME NEW t \in 1 .. drawn, t # u PROVE Turn(t)'
    <3>1. t \in Id /\ Turn(t)
      BY StateTypes DEF Turns
    <3>2. Alike(t)
      BY <1>11, <1>14, <2>6, <3>1, SilentAlike
    <3>3. Steady(t)
      BY <1>3, <1>14, <2>4, <2>5, <2>6, <3>1, RouteEnds DEF Steady
    <3> QED  BY <3>1, <3>2, <3>3, TurnKept
  <2>7. Turn(u)'
    <3>1. route'[u].source = s /\ route'[u].target = n /\ phase'[s][u] = phase[s][u]
      BY <1>3, <1>5, <1>6, <2>4
    <3>2. NoToken(upstream', inbox', u)
      BY <1>10, <1>14
    <3>3. PICK p : p = Expected(w)
      OBVIOUS
    <3>4. Flow(inbox[n], Unrouted(upstream, s), u, p, Due(u))
      BY <1>5, <1>6, <1>9, <1>14, <2>1, <3>3 DEF Turn
    <3>5. Flow(Tail(inbox[n]), Unrouted(upstream, s), u, Succ(p), Due(u))
      BY <1>0, <1>1, <1>3, <3>4, FlowTaken
    <3>6. Due(u)' = Due(u)
      BY <1>3, <1>14 DEF Due
    <3>7. inbox'[n] = Tail(inbox[n])
      BY <1>14 DEF Taken, FullType, NetType
    <3>8. Flow(inbox'[n], Unrouted(upstream', s), u, Expected(incoming'[n]), Due(u)')
      BY <1>14, <2>3, <2>4, <3>3, <3>5, <3>6, <3>7
    <3> QED  BY <1>9, <3>1, <3>2, <3>8 DEF Turn
  <2>8. HandlerNet(n)
    BY <1>1, <1>7, <1>14, <2>4 DEF HandlerNet
  <2>9. Placed'
    BY <2>3, <2>4 DEF Turns, Placed
  <2>10. \A t \in 1 .. drawn : Turn(t)'
    BY <2>6, <2>7
  <2> QED  BY <1>1, <2>8, <2>9, <2>10, HandlerTurns
<1>15. \/ Ignores(n) /\ (u \notin Sessions(n) \/ incoming[n].id # u)
       \/ u \in Sessions(n) /\ failSession(n, u, << >>, Taken(n))
       \/ Posts(n, s, <<Control("completed", u)>>, Taken(n)) /\ Closes(n, u, "completed")
       \/ /\ incoming[n].id = u /\ Accepts(incoming[n], m) /\ m.type # "finish"
          /\ incoming' = [incoming EXCEPT ![n] = Written(incoming[n], m)]
          /\ phase' = [phase EXCEPT ![n][u] = "receiving"]
          /\ inbox' = Taken(n) /\ upstream' = upstream /\ outgoing' = outgoing
  BY <1>0, <1>2, <1>6, <1>7 DEF handleData
<1>16. u \notin Sessions(n) => incoming[n].id # u
  BY <1>3 DEF Slots, Slot, Sessions, Live
<1>17. CASE u \in Sessions(n) /\ failSession(n, u, << >>, Taken(n))
  <2>1. \A f : Append(<< >>, f) = <<f>>
    OBVIOUS
  <2>2. Posts(n, s, <<Control("failed", u)>>, Taken(n)) /\ Closes(n, u, "failed")
    BY <1>7, <1>17, <2>1 DEF failSession
  <2> QED  BY <1>13, <2>2
<1> QED  BY <1>12, <1>13, <1>14, <1>15, <1>16, <1>17

\* An end is told how the other one ended.
LEMMA HandleResultTurns ==
  ASSUME FullType, Slots, Agree, Turns, NEW n \in Node, handleResult(n)
  PROVE  Turns'
<1>0. PICK m : m = Head(inbox[n])
  OBVIOUS
<1>1. /\ inbox[n] # << >> /\ m.type \in {"completed", "failed"} /\ m \in Message
      /\ UNCHANGED idVars /\ connected' = connected /\ route' = route
  BY <1>0, TakenType DEF handleResult, Receives, FullType, peerVars, idVars
<1>2. CASE Ignores(n)
  BY <1>0, <1>1, <1>2, IgnoresTurns DEF DataTypes
<1>3. ASSUME Closes(n, m.id, m.type), inbox' = Taken(n), upstream' = upstream
      PROVE  Turns'
  <2>1. PICK k : k = m.type
    OBVIOUS
  <2>2. PICK u : u = m.id
    OBVIOUS
  <2>3. k \in {"completed", "failed"} /\ u \in Id /\ Closes(n, u, k)
    BY <1>1, <1>3, <2>1, <2>2, MessageFields
  <2>4. /\ \A t \in Id : Steady(t)
        /\ Placed => Placed'
        /\ \A p \in Node : p # n => /\ outgoing'[p] = outgoing[p]
                                    /\ incoming'[p] = incoming[p]
    BY <1>1, <2>3, ClosesSteady
  <2>5. ASSUME NEW t \in 1 .. drawn PROVE Turn(t)'
    <3>1. t \in Id /\ Turn(t)
      BY StateTypes DEF Turns
    <3>2. MaybeTaken(n, t, Taken(n))
      BY <1>0, <1>1 DEF MaybeTaken, IsData, DataTypes
    <3>3. Alike(t)
      BY <1>3, <3>1, <3>2, SilentAlike
    <3> QED  BY <2>4, <3>1, <3>3, TurnKept
  <2>6. HandlerNet(n)
    BY <1>1, <1>3, <2>4, HasMail DEF HandlerNet, Turns
  <2> QED  BY <1>1, <2>4, <2>5, <2>6, HandlerTurns DEF Turns
<1> QED  BY <1>0, <1>2, <1>3 DEF handleResult

\* The server takes a message of a client, and has one for a computer.
LEMMA ServerPasses ==
  ASSUME FullType, Turns, NEW c \in Conn, upstream[c] # << >>,
         upstream' = [upstream EXCEPT ![c] = Tail(@)],
         NEW to \in Node, NEW x \in Message,
         \/ inbox' = inbox
         \/ to \in Running /\ inbox' = [inbox EXCEPT ![to] = @ \o <<x>>],
         x.type \in Token \union {"chunk"} => x = Head(upstream[c]),
         UNCHANGED idVars, UNCHANGED sessionVars, connected' = connected
  PROVE  /\ \A t \in 1 .. drawn :
              /\ NoToken(upstream, inbox, t) => NoToken(upstream', inbox', t)
              /\ ~IsData(Head(upstream[c]), t) /\ ~IsData(x, t) => Turn(t)'
         /\ Placed' /\ AllCounted' /\ Linked'
<1>0. PICK ms : ms = <<x>>
  OBVIOUS
<1>1. /\ ms \in Seq(Message) /\ Len(ms) = 1 /\ \A i \in 1 .. Len(ms) : ms[i] = x
      /\ upstream[c] \in Seq(Message)
  BY <1>0 DEF FullType, NetType
<1>2. /\ upstream'[c] = Tail(upstream[c])
      /\ \A d \in Conn : d # c => upstream'[d] = upstream[d]
  BY DEF FullType, NetType
<1>3. \A n \in Node : /\ inbox[n] \in Seq(Message)
                      /\ \/ inbox'[n] = inbox[n]
                         \/ to \in Running /\ n = to /\ inbox'[n] = inbox[n] \o ms
  BY <1>0 DEF FullType, NetType
<1>4. /\ route' = route /\ drawn' = drawn /\ phase' = phase
      /\ outgoing' = outgoing /\ incoming' = incoming
  BY DEF idVars, sessionVars
<1>5. /\ 1 \in 1 .. Len(upstream[c]) /\ Head(upstream[c]) = upstream[c][1]
  BY <1>1, TailElements
<1>6. ASSUME NEW t, NoToken(upstream, inbox, t) PROVE NoToken(upstream', inbox', t)
  <2>1. ~Tok(upstream[c], t)
    BY <1>6 DEF NoToken
  <2>2. ~Tok(ms, t)
    BY <1>1, <1>5, <2>1 DEF Tok
  <2>3. \A d \in Conn : ~Tok(upstream'[d], t)
    BY <1>1, <1>2, <1>6, TailTok DEF NoToken
  <2>4. ASSUME NEW n \in Node PROVE ~Tok(inbox'[n], t)
    <3>1. ~Tok(inbox[n], t)
      BY <1>6 DEF NoToken
    <3>2. CASE inbox'[n] = inbox[n] \o ms
      BY <1>1, <1>3, <2>2, <3>1, <3>2, JoinTok
    <3> QED  BY <1>3, <3>1, <3>2
  <2> QED  BY <2>3, <2>4 DEF NoToken
<1>7. ASSUME NEW t \in 1 .. drawn, ~IsData(Head(upstream[c]), t), ~IsData(x, t)
      PROVE  Turn(t)'
  <2>1. t \in Id /\ Turn(t)
    BY StateTypes DEF Turns
  <2>2. \A d \in Conn : Like(upstream[d], upstream'[d], t)
    BY <1>1, <1>2, <1>7, LikeTail, LikeItself
  <2>3. \A i \in 1 .. Len(ms) : ~IsData(ms[i], t)
    BY <1>1, <1>7
  <2>4. \A n \in Node : Like(inbox[n], inbox'[n], t)
    BY <1>1, <1>3, <2>3, LikeJoin, LikeItself
  <2>5. Alike(t)
    BY <1>6, <2>1, <2>2, <2>4, AllAlike
  <2> QED  BY <1>4, <2>1, <2>5, KeptSteady, TurnKept
<1>8. AllCounted'
  <2>1. Counted(ms)
    BY <1>1, <1>5 DEF Counted, Turns, AllCounted
  <2>2. \A d \in Conn : Counted(upstream'[d])
    BY <1>1, <1>2, CountedQueues DEF Turns, AllCounted
  <2>3. \A n \in Node : Counted(inbox'[n])
    BY <1>1, <1>3, <2>1, CountedQueues DEF Turns, AllCounted
  <2> QED  BY <2>2, <2>3 DEF AllCounted
<1>9. Linked'
  <2> SUFFICES ASSUME NEW d \in Conn \ connected PROVE Unlinked(d)'
    BY DEF Linked
  <2>1. Unlinked(d) /\ d \in Node
    BY DEF Turns, Linked, Node
  <2>2. d # c
    BY <2>1 DEF Unlinked
  <2>3. d \notin Running
    BY PrimaryIsNoClient DEF Running
  <2> QED  BY <1>2, <1>3, <1>4, <2>1, <2>2, <2>3 DEF Unlinked
<1> QED  BY <1>4, <1>6, <1>7, <1>8, <1>9 DEF Turns, Placed

\* The server passes data on as it gets them, or its writer is gone for good.
LEMMA RouteTurns ==
  ASSUME FullType, Agree, Turns, NEW c \in Conn, routeFileTransfer(c)
  PROVE  Turns'
<1>0. PICK m : m = Head(upstream[c])
  OBVIOUS
<1>1. PICK u : u = m.id
  OBVIOUS
<1>2. PICK to : to = OtherEnd(c, u)
  OBVIOUS
<1>3. /\ upstream[c] # << >> /\ m.type # "request" /\ upstream[c] \in Seq(Message)
      /\ upstream' = [upstream EXCEPT ![c] = Tail(@)]
      /\ UNCHANGED idVars /\ UNCHANGED sessionVars /\ connected' = connected
      /\ inbox' = IF to \in Running THEN [inbox EXCEPT ![to] = Append(@, m)]
                  ELSE inbox
  BY <1>0, <1>1, <1>2 DEF routeFileTransfer, peerVars, FullType, NetType
<1>4. m \in Message /\ SoundUp(phase, outgoing, route, drawn, m, c)
  BY <1>0, <1>3, TailElements DEF Agree, Mail
<1>5. u \in Id /\ m.type # "response"
  BY <1>1, <1>3, <1>4, MessageFields DEF SoundUp
<1>6. c \in Node /\ to \in Node
  BY <1>2, <1>5, OtherEndType DEF FullType, Node
<1>7. to \in Running => inbox' = [inbox EXCEPT ![to] = @ \o <<m>>]
  <2>1. Append(inbox[to], m) = inbox[to] \o <<m>>
    BY <1>4, <1>6, AppendJoins DEF FullType, NetType
  <2> QED  BY <1>3, <2>1
<1>8. /\ \A t \in 1 .. drawn :
           /\ NoToken(upstream, inbox, t) => NoToken(upstream', inbox', t)
           /\ ~IsData(m, t) => Turn(t)'
      /\ Placed' /\ AllCounted' /\ Linked'
  <2>1. /\ \/ inbox' = inbox
           \/ to \in Running /\ inbox' = [inbox EXCEPT ![to] = @ \o <<m>>]
        /\ m.type \in Token \union {"chunk"} => m = Head(upstream[c])
    BY <1>0, <1>3, <1>7
  <2> QED  BY <1>0, <1>3, <1>4, <1>6, <2>1, ServerPasses
<1>9. ASSUME NEW t \in 1 .. drawn, IsData(m, t) PROVE Turn(t)'
  <2>1. t = u /\ m.type \in DataTypes /\ Turn(t)
    BY <1>1, <1>9 DEF IsData, Turns
  <2>2. route' = route /\ phase' = phase /\ incoming' = incoming /\ outgoing' = outgoing
    BY <1>3 DEF idVars, sessionVars
  <2>3. c = route[t].source /\ to = route[t].target
    <3>1. route[t].source # route[t].target
      BY DEF Agree, Ends, Beliefs
    <3>2. c \in {route[t].source, route[t].target}
          /\ Other(route, c, t) = route[t].target
      BY <1>1, <1>4, <2>1 DEF SoundUp, Sound, DataTypes
    <3> QED  BY <1>2, <2>1, <3>1, <3>2 DEF Other, OtherEnd
  <2>4. ~NoData(t)
    <3>1. Mark(m) \in Marks(upstream[c], t)
      BY <1>0, <1>3, <1>9, TailMarks
    <3> QED  BY <2>3, <3>1 DEF NoData, Unrouted
  <2>5. /\ NoToken(upstream', inbox', t) /\ phase[c][t] # "awaitingDecision"
    BY <1>8, <2>1, <2>3, <2>4 DEF Turn
  <2>6. CASE to \notin Running
    <3>1. incoming[to] = NoWriter
      BY <1>6, <2>6 DEF Turns, Linked, Unlinked, Running, Node
    <3>2. incoming'[to].id # t
      BY <1>5, <2>1, <2>2, <3>1 DEF NoWriter, Id
    <3> QED  BY <2>1, <2>2, <2>3, <2>4, <2>5, <3>2, TurnLost
  <2>7. CASE to \in Running
    <3>1. PICK q1 : q1 = inbox[to]
      OBVIOUS
    <3>2. PICK q2 : q2 = upstream[c]
      OBVIOUS
    <3>3. /\ q1 \in Seq(Message) /\ q2 \in Seq(Message) /\ q2 # << >> /\ m = Head(q2)
          /\ Unrouted(upstream, c) = q2
      BY <1>0, <1>3, <1>6, <3>1, <3>2 DEF FullType, NetType, Unrouted
    <3>4. inbox'[to] = q1 \o <<m>> /\ Unrouted(upstream', c) = Tail(q2)
      BY <1>3, <1>6, <1>7, <2>7, <3>1, <3>2 DEF FullType, NetType, Unrouted
    <3>5. Due(t)' = Due(t)
      BY <2>2 DEF Due
    <3>6. ASSUME incoming[to].id = t
          PROVE  Flow(inbox'[to], Unrouted(upstream', c), t, Expected(incoming[to]),
                      Due(t)')
      <4>1. Flow(q1, q2, t, Expected(incoming[to]), Due(t))
        BY <2>1, <2>3, <3>1, <3>3, <3>6 DEF Turn
      <4>2. Flow(q1 \o <<m>>, Tail(q2), t, Expected(incoming[to]), Due(t))
        BY <1>9, <3>3, <4>1, FlowRouted
      <4> QED  BY <3>4, <3>5, <4>2
    <3> QED  BY <2>2, <2>3, <2>5, <3>6 DEF Turn
  <2> QED  BY <2>6, <2>7
<1>10. \A t \in 1 .. drawn : Turn(t)'
  BY <1>8, <1>9
<1> QED  BY <1>3, <1>8, <1>10 DEF Turns, idVars

\* Requests and answers are no data.
LEMMA EdgeTurns ==
  ASSUME FullType, Slots, Agree, Turns,
         \/ \E c \in Conn : DropOnPrimary(c) \/ DropOnClient(c)
         \/ \E n \in Node : handleEdgeMessage(n)
         \/ \E c \in Conn, n \in Node \union {NoScreen} :
              handleFileTransferEdge(c, n)
  PROVE  Turns'
<1>1. ASSUME NEW c \in Conn, DropOnPrimary(c) PROVE Turns'
  <2>1. /\ offerLocalFiles(Primary, c, 0, inbox) /\ connected' = connected
        /\ Primary \in Running /\ c \in Node /\ Primary # c /\ inbox = inbox
    BY <1>1, PrimaryIsNoClient DEF DropOnPrimary, peerVars, Running, Node
  <2> QED  BY <2>1, OfferTurns
<1>2. ASSUME NEW c \in Conn, DropOnClient(c) PROVE Turns'
  <2>1. PICK x : x = Request(requests + 1)
    OBVIOUS
  <2>2. /\ c \in connected /\ connected' = connected /\ requests < MaxRequests
        /\ upstream' = [upstream EXCEPT ![c] = Append(@, x)] /\ inbox' = inbox
        /\ UNCHANGED idVars /\ UNCHANGED sessionVars
    BY <1>2, <2>1 DEF DropOnClient, peerVars
  <2>3. /\ x \in Message /\ \A t : ~IsData(x, t)
        /\ x.type \notin Token /\ x.type # "chunk"
    <3>1. requests \in Nat /\ requests + 1 \in 0 .. MaxRequests
      BY <2>2, BoundAssumption DEF FullType, EdgeType
    <3>2. x \in Message
      BY <2>1, <3>1 DEF Request, Message
    <3> QED  BY <2>1, <3>2 DEF Request, IsData, DataTypes, Token
  <2>4. PICK ms : ms = <<x>>
    OBVIOUS
  <2>5. ms \in Seq(Message) /\ \A i \in 1 .. Len(ms) : ms[i] = x
    BY <2>3, <2>4
  <2>6. c \in Node /\ c # Primary /\ Reaches(c, c) /\ Counted(ms)
    BY <2>3, <2>5, PrimaryIsNoClient DEF Node, Reaches, Counted
  <2>7. Posts(c, c, ms, inbox)
    <3>1. Append(upstream[c], x) = upstream[c] \o ms
      BY <2>3, <2>4, AppendJoins DEF FullType, NetType
    <3> QED  BY <2>2, <2>6, <3>1 DEF Posts
  <2>8. HandlerNet(c)
    BY <2>2, <2>5, <2>6, <2>7 DEF HandlerNet, Running, sessionVars
  <2>9. Placed'
    BY <2>2 DEF Turns, Placed, sessionVars
  <2>10. ASSUME NEW t \in 1 .. drawn PROVE Turn(t)'
    <3>1. t \in Id /\ Turn(t)
      BY StateTypes DEF Turns
    <3>2. MaybeTaken(c, t, inbox) /\ ~Tok(ms, t)
          /\ \A i \in 1 .. Len(ms) : ~IsData(ms[i], t)
      BY <2>3, <2>5 DEF MaybeTaken, Tok
    <3>3. Alike(t)
      BY <2>5, <2>6, <2>7, <3>1, <3>2, PostsAlike
    <3> QED  BY <2>2, <3>1, <3>3, KeptSteady, TurnKept DEF idVars
  <2> QED  BY <2>2, <2>6, <2>8, <2>9, <2>10, HandlerTurns
<1>3. ASSUME NEW n \in Node, handleEdgeMessage(n) PROVE Turns'
  <2>1. PICK m : m = Head(inbox[n])
    OBVIOUS
  <2>2. /\ inbox[n] # << >> /\ m.type = "response" /\ m \in Message
        /\ connected' = connected /\ m.type \notin DataTypes
    BY <1>3, <2>1, TakenType
       DEF handleEdgeMessage, Receives, FullType, peerVars, DataTypes
  <2>3. CASE Ignores(n) /\ UNCHANGED idVars
    BY <2>1, <2>2, <2>3, IgnoresTurns
  <2>4. CASE m.target # NoScreen
               /\ offerLocalFiles(n, m.target, pendingEdge[n], Taken(n))
    <3>1. Sound(phase, outgoing, route, drawn, m, n)
      BY <2>1, <2>2, Takes
    <3>2. m.target \in Node /\ n # m.target
      BY <2>2, <2>4, <3>1, MessageFields DEF Sound
    <3>3. n \in Running
      BY <2>2, HasMail DEF Turns
    <3>4. inbox[n] # << >> /\ Taken(n) = Taken(n) /\ Head(inbox[n]).type \notin DataTypes
      BY <2>1, <2>2
    <3> QED  BY <2>2, <2>4, <3>2, <3>3, <3>4, OfferTurns
  <2> QED  BY <1>3, <2>1, <2>3, <2>4 DEF handleEdgeMessage
<1>4. ASSUME NEW c \in Conn, NEW n \in Node \union {NoScreen},
             handleFileTransferEdge(c, n)
      PROVE  Turns'
  <2>1. PICK m : m = Head(upstream[c])
    OBVIOUS
  <2>2. PICK x : x = Response(m.request, n)
    OBVIOUS
  <2>3. /\ upstream[c] # << >> /\ m.type = "request" /\ upstream[c] \in Seq(Message)
        /\ upstream' = [upstream EXCEPT ![c] = Tail(@)]
        /\ inbox' = [inbox EXCEPT ![c] = Append(@, x)]
        /\ UNCHANGED idVars /\ UNCHANGED sessionVars /\ connected' = connected
    BY <1>4, <2>1, <2>2 DEF handleFileTransferEdge, peerVars, FullType, NetType
  <2>4. m \in Message /\ m.request \in 0 .. MaxRequests
    BY <2>1, <2>3, MessageFields
  <2>5. /\ x \in Message /\ \A t : ~IsData(x, t)
        /\ x.type \notin Token \union {"chunk"}
    <3>1. x \in Message
      BY <2>2, <2>4 DEF Response, Message
    <3> QED  BY <2>2, <3>1 DEF Response, IsData, DataTypes, Token
  <2>6. c \in Node /\ c \in Running
    <3>1. ~Unlinked(c)
      BY <2>3 DEF Unlinked
    <3> QED  BY <3>1 DEF Turns, Linked, Running, Node
  <2>7. inbox' = [inbox EXCEPT ![c] = @ \o <<x>>]
    <3>1. Append(inbox[c], x) = inbox[c] \o <<x>>
      BY <2>5, <2>6, AppendJoins DEF FullType, NetType
    <3> QED  BY <2>3, <3>1
  <2>8. \A t : ~IsData(m, t)
    BY <2>3 DEF IsData, DataTypes
  <2>9. /\ \A t \in 1 .. drawn :
             ~IsData(Head(upstream[c]), t) /\ ~IsData(x, t) => Turn(t)'
        /\ Placed' /\ AllCounted' /\ Linked'
    BY <2>3, <2>5, <2>6, <2>7, ServerPasses
  <2>10. \A t \in 1 .. drawn : Turn(t)'
    BY <2>1, <2>5, <2>8, <2>9
  <2> QED  BY <2>3, <2>9, <2>10 DEF Turns, idVars
<1> QED  BY <1>1, <1>2, <1>3, <1>4

\* A lost connection takes the data of a client with their reader and writer.
LEMMA DisconnectTurns ==
  ASSUME FullType, Agree, Turns, NEW c \in Conn, Disconnect(c)
  PROVE  Turns'
<1>1. /\ c \in Node /\ connected' = connected \ {c}
      /\ outgoing'[c] = NoReader /\ incoming'[c] = NoWriter
      /\ upstream'[c] = << >> /\ inbox'[c] = << >>
      /\ \A t \in Id : phase'[c][t] \notin Live
      /\ route' = route /\ drawn' = drawn
  BY DEF Disconnect, idVars, FullType, SessionType, NetType, Node, Live
<1>2. /\ \A n \in Node : n # c =>
           /\ phase'[n] = phase[n] /\ outgoing'[n] = outgoing[n]
           /\ incoming'[n] = incoming[n] /\ inbox'[n] = inbox[n]
      /\ \A d \in Conn : d # c => upstream'[d] = upstream[d]
  BY DEF Disconnect, FullType, SessionType, NetType
<1>3. \A t : ~Tok(<< >>, t)
  BY NotData
<1>4. ASSUME NEW t \in 1 .. drawn PROVE Turn(t)'
  <2>1. t \in Id /\ Turn(t) /\ t # 0
    BY StateTypes DEF Turns, Id
  <2>2. PICK s : s = route[t].source
    OBVIOUS
  <2>3. PICK r : r = route[t].target
    OBVIOUS
  <2>4. /\ s \in Node /\ r \in Node /\ s # r
        /\ route'[t].source = s /\ route'[t].target = r
    BY <1>1, <2>1, <2>2, <2>3, RouteEnds DEF Agree, Ends, Beliefs
  <2>5. NoToken(upstream, inbox, t) => NoToken(upstream', inbox', t)
    BY <1>1, <1>2, <1>3 DEF NoToken
  <2>6. phase'[s][t] = "awaitingDecision" => s # c /\ phase'[s] = phase[s]
    BY <1>1, <1>2, <2>1, <2>4 DEF Live
  <2>7. Unrouted(upstream', s) = IF s = c THEN << >> ELSE Unrouted(upstream, s)
    BY <1>1, <1>2 DEF Unrouted
  <2>8. NoData(t) => NoData(t)'
    <3>1. Marks(inbox[r], t) = {} => Marks(inbox'[r], t) = {}
      BY <1>1, <1>2, <2>4, EmptyRun
    <3>2. Marks(Unrouted(upstream, s), t) = {} => Marks(Unrouted(upstream', s), t) = {}
      BY <2>7, EmptyRun
    <3> QED  BY <2>2, <2>3, <2>4, <3>1, <3>2 DEF NoData
  <2>9. CASE r = c
    <3>1. incoming'[r].id # t
      BY <1>1, <2>1, <2>9 DEF NoWriter
    <3> QED  BY <1>1, <2>1, <2>2, <2>3, <2>5, <2>6, <2>8, <3>1, TurnLost
  <2>10. CASE r # c
    <3>1. inbox'[r] = inbox[r] /\ incoming'[r] = incoming[r]
      BY <1>2, <2>4, <2>10
    <3>2. ASSUME incoming[r].id = t
          PROVE  Flow(inbox[r], Unrouted(upstream', s), t, Expected(incoming[r]),
                      Due(t)')
      <4>1. Flow(inbox[r], Unrouted(upstream, s), t, Expected(incoming[r]), Due(t))
        BY <2>1, <2>2, <2>3, <3>2 DEF Turn
      <4>2. CASE s = c
        <5>1. Due(t)' = {}
          BY <1>1, <2>1, <2>4, <4>2 DEF Due, NoReader
        <5>2. Unrouted(upstream', s) = << >>
          BY <2>7, <4>2
        <5> QED  BY <4>1, <5>1, <5>2, FlowCut
      <4>3. CASE s # c
        <5>1. Due(t)' = Due(t)
          BY <1>2, <2>2, <2>4, <4>3 DEF Due
        <5>2. Unrouted(upstream', s) = Unrouted(upstream, s)
          BY <2>7, <4>3
        <5> QED  BY <4>1, <5>1, <5>2
      <4> QED  BY <4>2, <4>3
    <3> QED
      BY <2>1, <2>2, <2>3, <2>4, <2>5, <2>6, <2>8, <3>1, <3>2 DEF Turn
  <2> QED  BY <2>9, <2>10
<1>5. Placed'
  BY <1>1, <1>2 DEF Turns, Placed
<1>6. AllCounted'
  BY <1>1, <1>2, NotData DEF Turns, AllCounted
<1>7. Linked'
  <2> SUFFICES ASSUME NEW d \in Conn, d \notin connected' PROVE Unlinked(d)'
    BY DEF Linked
  <2>1. CASE d = c
    BY <1>1, <2>1 DEF Unlinked
  <2>2. CASE d # c
    BY <1>1, <1>2, <2>2 DEF Turns, Linked, Unlinked, Node
  <2> QED  BY <2>1, <2>2
<1> QED  BY <1>1, <1>4, <1>5, <1>6, <1>7 DEF Turns

LEMMA TurnsStep == FullType /\ Slots /\ Agree /\ Turns /\ [Next]_vars => Turns'
<1> SUFFICES ASSUME FullType, Slots, Agree, Turns, [Next]_vars PROVE Turns'
  OBVIOUS
<1>1. ASSUME NEW c \in Conn, DropOnPrimary(c) PROVE Turns'
  BY <1>1, EdgeTurns
<1>2. ASSUME NEW c \in Conn, DropOnClient(c) PROVE Turns'
  BY <1>2, EdgeTurns
<1>3. ASSUME NEW c \in Conn, expirePendingEdgeRequest(c) PROVE Turns'
  BY <1>3, KeptTurns DEF expirePendingEdgeRequest, peerVars
<1>4. ASSUME NEW n \in Node, handleEdgeMessage(n) PROVE Turns'
  BY <1>4, EdgeTurns
<1>5. ASSUME NEW n \in Node, NEW w \in BOOLEAN, handleOffer(n, w) PROVE Turns'
  BY <1>5, HandleOfferTurns
<1>6. ASSUME NEW n \in Node, NEW r \in BOOLEAN, handleDecision(n, r)
      PROVE  Turns'
  BY <1>6, HandleDecisionTurns
<1>7. ASSUME NEW n \in Node, NEW r \in BOOLEAN, NEW op \in BOOLEAN,
             processNextOutgoingChunk(n, r, op)
      PROVE  Turns'
  BY <1>7, SendNextTurns
<1>8. ASSUME NEW n \in Node, NEW w \in BOOLEAN, handleData(n, w) PROVE Turns'
  BY <1>8, HandleDataTurns
<1>9. ASSUME NEW n \in Node, handleResult(n) PROVE Turns'
  BY <1>9, HandleResultTurns
<1>10. ASSUME NEW c \in Conn, routeFileTransfer(c) PROVE Turns'
  BY <1>10, RouteTurns
<1>11. ASSUME NEW c \in Conn, NEW n \in Node \union {NoScreen},
              handleFileTransferEdge(c, n)
       PROVE  Turns'
  BY <1>11, EdgeTurns
<1>12. ASSUME NEW c \in Conn, Connect(c) PROVE Turns'
  BY <1>12, KeptTurns DEF Connect
<1>13. ASSUME NEW c \in Conn, Disconnect(c) PROVE Turns'
  BY <1>13, DisconnectTurns
<1>14. ASSUME NEW n \in Node, Expire(n) PROVE Turns'
  BY <1>14, KeptTurns DEF Expire, peerVars
<1>15. ASSUME UNCHANGED vars PROVE Turns'
  BY <1>15, KeptTurns DEF vars, idVars, sessionVars, netVars
<1> QED
  BY <1>1, <1>2, <1>3, <1>4, <1>5, <1>6, <1>7, <1>8, <1>9, <1>10, <1>11, <1>12,
     <1>13, <1>14, <1>15 DEF Next, Rests

LEMMA InitTurns == Init => Turns
<1> SUFFICES ASSUME Init PROVE Turns
  OBVIOUS
<1>1. /\ drawn = 0 /\ \A c \in Conn : upstream[c] = << >> /\ c \in Node
      /\ \A n \in Node : /\ inbox[n] = << >> /\ outgoing[n] = NoReader
                         /\ incoming[n] = NoWriter
  BY DEF Init, Node
<1>2. \A t : t \notin 1 .. drawn
  BY <1>1
<1>3. Counted(<< >>)
  BY NotData
<1> QED
  BY <1>1, <1>2, <1>3 DEF Turns, Placed, AllCounted, Linked, Unlinked

\* The data of a transfer reach its writer in the order it takes them, whatever
\* is sent beside them, is routed late, or is lost with a connection: handleData
\* of FileTransferService.cpp fails no transfer over what
\* processNextOutgoingChunk has sent it.
THEOREM DataAreAlwaysInTurn == Spec => []DataAreInTurn
<1>1. Init => FullType /\ Slots /\ Agree /\ Turns
  BY InitType, InitSlots, InitAgrees, InitTurns
<1>2. FullType /\ Slots /\ Agree /\ Turns /\ [Next]_vars
        => (FullType /\ Slots /\ Agree /\ Turns)'
  BY TypeStep, SlotsStep, AgreeStep, TurnsStep
<1>3. FullType /\ Agree /\ Turns => DataAreInTurn
  BY TurnsSuffice
<1> QED  BY <1>1, <1>2, <1>3, PTL DEF Spec
==============================================================================
