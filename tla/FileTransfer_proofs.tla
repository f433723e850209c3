-------------------------- MODULE FileTransfer_proofs --------------------------
(***************************************************************************)
(* Proofs about FileTransfer, for any clients, files and bounds: types,    *)
(* that a service holds exactly what its one session needs, and that files *)
(* go to the screen the server named for their drop.                       *)
(***************************************************************************)
EXTENDS FileTransfer, FiniteSetTheorems, TLAPS

(* What the streams carry. *)
Message ==
  [type : {"offer", "accept", "reject", "completed", "failed", "begin",
           "finish"}, id : Id]
  \union [type : {"chunk"}, id : Id, item : 0 .. Items - 1, chunk : 0 .. Chunks]
  \union [type : {"itemEnd"}, id : Id, item : 0 .. Items - 1]
  \union [type : {"request"}, request : 0 .. MaxRequests]
  \union [type : {"response"}, request : 0 .. MaxRequests,
          target : Node \union {NoScreen}]

NetType ==
  upstream \in [Conn -> Seq(Message)] /\ inbox \in [Node -> Seq(Message)]

SessionType ==
  /\ phase \in [Node -> [Id -> Phase]]
  /\ outgoing \in [Node -> Reader \union {NoReader}]
  /\ incoming \in [Node -> Writer \union {NoWriter}]

IdType == drawn \in 0 .. MaxTransfers /\ route \in [Id -> Route]

EdgeType ==
  /\ requests \in 0 .. MaxRequests
  /\ pendingEdge \in [Node -> 0 .. MaxRequests]
  /\ answer \in [1 .. MaxRequests -> Node \union {NoScreen}]

PeerType ==
  /\ connected \subseteq Conn /\ connects \in [Conn -> 0 .. MaxConnects]
  /\ entitled \subseteq Node /\ sendScheduled \subseteq Node

LEMMA TypeGroups == TypeOK <=> SessionType /\ IdType /\ EdgeType /\ PeerType
BY DEF TypeOK, SessionType, IdType, EdgeType, PeerType

-----------------------------------------------------------------------------
(* Messages. *)

\* The fields a handler reads are there.
LEMMA MessageFields ==
  ASSUME NEW m \in Message
  PROVE  /\ m.type \in {"offer", "accept", "reject", "completed", "failed",
                        "begin", "finish", "chunk", "itemEnd"} => m.id \in Id
         /\ m.type \in {"chunk", "itemEnd"} => m.item \in 0 .. Items - 1
         /\ m.type \notin {"request", "response"} => m.id \in Id
         /\ m.type \in {"request", "response"} =>
              m.request \in 0 .. MaxRequests
         /\ m.type = "response" => m.target \in Node \union {NoScreen}
BY DEF Message

LEMMA ControlIsMessage ==
  ASSUME NEW t \in Id,
         NEW type \in {"offer", "accept", "reject", "completed", "failed"}
  PROVE  Control(type, t) \in Message
BY DEF Control, Message

\* What is read of a file can be sent.
LEMMA PiecesAreMessages ==
  ASSUME NEW o \in Reader
  PROVE  Pieces(o) \in Seq(Message)
<1>1. o.chunk < Chunks => Chunk(o.id, o.item, o.chunk) \in Message
  BY DEF Reader, Chunk, Message
<1>2. ItemEnd(o.id, o.item) \in Message
  BY DEF Reader, ItemEnd, Message
<1>3. Finish(o.id) \in Message
  BY DEF Reader, Finish, Message
<1> DEFINE A == IF o.chunk < Chunks THEN <<Chunk(o.id, o.item, o.chunk)>>
                ELSE << >>
           B == IF LastOfItem(o) THEN <<ItemEnd(o.id, o.item)>> ELSE << >>
           C == IF LastOfItem(o) /\ LastItem(o) THEN <<Finish(o.id)>> ELSE << >>
<1>4. A \in Seq(Message)
  BY <1>1
<1>5. B \in Seq(Message)
  BY <1>2
<1>6. C \in Seq(Message)
  BY <1>3
<1>7. Pieces(o) = A \o B \o C
  BY DEF Pieces
<1> HIDE DEF A, B, C
<1> QED  BY <1>4, <1>5, <1>6, <1>7

LEMMA TakenType ==
  ASSUME NetType, NEW n \in Node, inbox[n] # << >>
  PROVE  /\ Taken(n) \in [Node -> Seq(Message)]
         /\ Head(inbox[n]) \in Message
BY DEF NetType, Taken

LEMMA PostsType ==
  ASSUME NetType, NEW n \in Node, NEW to \in Node, NEW ms \in Seq(Message),
         NEW in \in [Node -> Seq(Message)], Posts(n, to, ms, in)
  PROVE  NetType'
<1>1. CASE n # Primary
  <2>1. n \in Conn /\ upstream[n] \in Seq(Message)
    BY <1>1 DEF NetType, Node
  <2>2. upstream[n] \o ms \in Seq(Message)
    BY <2>1
  <2>3. upstream' = [upstream EXCEPT ![n] = upstream[n] \o ms] /\ inbox' = in
    BY <1>1 DEF Posts
  <2> QED  BY <2>2, <2>3 DEF NetType
<1>2. CASE n = Primary
  <2>1. in[to] \o ms \in Seq(Message)
    OBVIOUS
  <2>2. \/ inbox' = [in EXCEPT ![to] = in[to] \o ms]
        \/ inbox' = in
    BY <1>2 DEF Posts
  <2>3. inbox' \in [Node -> Seq(Message)]
    BY <2>1, <2>2
  <2> QED  BY <1>2, <2>3 DEF NetType, Posts
<1> QED  BY <1>1, <1>2

LEMMA OtherEndType ==
  ASSUME IdType, NEW n \in Node, NEW t \in Id
  PROVE  OtherEnd(n, t) \in Node
BY DEF IdType, Route, OtherEnd

LEMMA ClosesType ==
  ASSUME SessionType, NEW n \in Node, NEW t \in Id,
         NEW how \in {"completed", "failed"}, Closes(n, t, how)
  PROVE  SessionType'
BY DEF SessionType, Closes, Phase, Ended

\* failSession leaves sessions and streams well typed.
LEMMA FailType ==
  ASSUME SessionType, IdType, NetType, NEW n \in Node, NEW t \in Id,
         NEW ms \in Seq(Message), NEW in \in [Node -> Seq(Message)],
         failSession(n, t, ms, in)
  PROVE  SessionType' /\ NetType'
<1>1. OtherEnd(n, t) \in Node
  BY OtherEndType
<1>2. Append(ms, Control("failed", t)) \in Seq(Message)
  BY ControlIsMessage
<1>3. CASE t \in Sessions(n)
  BY <1>1, <1>2, <1>3, PostsType, ClosesType DEF failSession
<1>4. CASE t \notin Sessions(n)
  <2>1. NetType'
    BY <1>1, <1>4, PostsType DEF failSession
  <2>2. SessionType'
    BY <1>4 DEF failSession, SessionType, sessionVars
  <2> QED  BY <2>1, <2>2
<1> QED  BY <1>3, <1>4

LEMMA KeptSessions == SessionType /\ UNCHANGED sessionVars => SessionType'
BY DEF SessionType, sessionVars

LEMMA KeptIds == IdType /\ UNCHANGED idVars => IdType'
BY DEF IdType, idVars

LEMMA KeptEdges == EdgeType /\ UNCHANGED edgeVars => EdgeType'
BY DEF EdgeType, edgeVars

LEMMA KeptNet == NetType /\ UNCHANGED netVars => NetType'
BY DEF NetType, netVars

LEMMA IgnoresType ==
  ASSUME SessionType, NetType, NEW n \in Node, inbox[n] # << >>, Ignores(n)
  PROVE  SessionType' /\ NetType'
BY TakenType DEF Ignores, SessionType, NetType, sessionVars

LEMMA OfferType ==
  ASSUME SessionType, IdType, NetType, NEW n \in Node, NEW target \in Node,
         NEW request \in 0 .. MaxRequests, NEW in \in [Node -> Seq(Message)],
         offerLocalFiles(n, target, request, in)
  PROVE  SessionType' /\ IdType' /\ NetType'
<1> DEFINE t == drawn + 1
<1>1. t \in Id /\ t \in 0 .. MaxTransfers
  BY BoundAssumption DEF IdType, offerLocalFiles, Id
<1>2. <<Control("offer", t)>> \in Seq(Message)
  BY <1>1, ControlIsMessage
<1>3. /\ drawn' = t
      /\ route' = [route EXCEPT ![t] = [source |-> n, target |-> target,
                                        request |-> request]]
      /\ phase' = [phase EXCEPT ![n][t] = "awaitingDecision"]
      /\ Posts(n, target, <<Control("offer", t)>>, in)
      /\ UNCHANGED <<outgoing, incoming>>
  BY DEF offerLocalFiles
<1> HIDE DEF t
<1>4. NetType'
  BY <1>2, <1>3, PostsType
<1>5. SessionType'
  BY <1>1, <1>3 DEF SessionType, Phase, Live
<1>6. IdType'
  BY <1>1, <1>3 DEF IdType, Route
<1> QED  BY <1>4, <1>5, <1>6

-----------------------------------------------------------------------------
(* Types. *)

FullType == SessionType /\ IdType /\ EdgeType /\ PeerType /\ NetType

LEMMA InitType == Init => FullType
<1> SUFFICES ASSUME Init PROVE FullType
  OBVIOUS
<1>1. << >> \in Seq(Message)
  OBVIOUS
<1>2. NetType
  BY <1>1 DEF Init, NetType
<1>3. SessionType
  BY DEF Init, SessionType, Phase
<1>4. IdType /\ EdgeType /\ PeerType
  BY BoundAssumption DEF Init, IdType, EdgeType, PeerType, Route, Node
<1> QED  BY <1>2, <1>3, <1>4 DEF FullType

\* Dropping files, and the server's answers to edge requests.
LEMMA EdgeActionsType ==
  ASSUME FullType,
         \/ \E c \in Conn : DropOnPrimary(c) \/ DropOnClient(c)
         \/ \E c \in Conn : expirePendingEdgeRequest(c)
         \/ \E n \in Node : handleEdgeMessage(n)
  PROVE  FullType'
<1> USE DEF FullType
<1>1. ASSUME NEW c \in Conn, DropOnPrimary(c) PROVE FullType'
  <2>1. c \in Node /\ Primary \in Node
    BY DEF Node
  <2>2. SessionType' /\ IdType' /\ NetType'
    <3>1. offerLocalFiles(Primary, c, 0, inbox)
      BY <1>1 DEF DropOnPrimary
    <3>2. inbox \in [Node -> Seq(Message)] /\ 0 \in 0 .. MaxRequests
      BY BoundAssumption DEF NetType
    <3> QED  BY <2>1, <3>1, <3>2, OfferType
  <2>3. EdgeType' /\ PeerType'
    BY <1>1 DEF DropOnPrimary, EdgeType, PeerType, peerVars, edgeVars
  <2> QED  BY <2>2, <2>3
<1>2. ASSUME NEW c \in Conn, DropOnClient(c) PROVE FullType'
  <2>1. requests + 1 \in 0 .. MaxRequests
    BY <1>2, BoundAssumption DEF DropOnClient, EdgeType
  <2>2. Append(upstream[c], Request(requests + 1)) \in Seq(Message)
    <3>1. Request(requests + 1) \in Message
      BY <2>1 DEF Request, Message
    <3> QED  BY <3>1 DEF NetType
  <2>3. NetType'
    BY <1>2, <2>2 DEF DropOnClient, NetType
  <2>4. EdgeType'
    BY <1>2, <2>1 DEF DropOnClient, EdgeType
  <2>5. SessionType' /\ IdType'
    BY <1>2, KeptSessions, KeptIds DEF DropOnClient
  <2>6. PeerType'
    BY <1>2 DEF DropOnClient, PeerType, peerVars
  <2> QED  BY <2>3, <2>4, <2>5, <2>6
<1>3. ASSUME NEW c \in Conn, expirePendingEdgeRequest(c) PROVE FullType'
  <2>1. EdgeType'
    <3>1. 0 \in 0 .. MaxRequests
      BY BoundAssumption
    <3>2. /\ pendingEdge' = [pendingEdge EXCEPT ![c] = 0]
          /\ requests' = requests /\ answer' = answer
      BY <1>3 DEF expirePendingEdgeRequest
    <3> QED  BY <3>1, <3>2 DEF EdgeType
  <2>2. SessionType' /\ IdType' /\ NetType'
    BY <1>3, KeptSessions, KeptIds, KeptNet DEF expirePendingEdgeRequest
  <2>3. PeerType'
    BY <1>3 DEF expirePendingEdgeRequest, PeerType, peerVars
  <2> QED  BY <2>1, <2>2, <2>3
<1>4. ASSUME NEW n \in Node, handleEdgeMessage(n) PROVE FullType'
  <2> DEFINE m == Head(inbox[n])
  <2>1. inbox[n] # << >> /\ m.type = "response"
    BY <1>4 DEF handleEdgeMessage, Receives
  <2>2. m \in Message /\ Taken(n) \in [Node -> Seq(Message)]
    BY <2>1, TakenType
  <2>3. m.target \in Node \union {NoScreen}
    BY <2>1, <2>2, MessageFields
  <2>4. PeerType'
    BY <1>4 DEF handleEdgeMessage, PeerType, peerVars
  <2>5. EdgeType'
    BY <1>4, BoundAssumption DEF handleEdgeMessage, EdgeType
  <2>6. CASE /\ n \in entitled /\ m.target # NoScreen /\ Idle(n)
             /\ Answers(n, m)
    <3>1. offerLocalFiles(n, m.target, pendingEdge[n], Taken(n))
      BY <1>4, <2>6 DEF handleEdgeMessage
    <3>2. m.target \in Node /\ pendingEdge[n] \in 0 .. MaxRequests
      BY <2>3, <2>6 DEF EdgeType
    <3>3. SessionType' /\ IdType' /\ NetType'
      BY <2>2, <3>1, <3>2, OfferType
    <3> QED  BY <2>4, <2>5, <3>3
  <2>7. CASE ~ /\ n \in entitled /\ m.target # NoScreen /\ Idle(n)
               /\ Answers(n, m)
    <3>1. Ignores(n) /\ UNCHANGED idVars
      BY <1>4, <2>7 DEF handleEdgeMessage
    <3>2. SessionType' /\ IdType' /\ NetType'
      BY <2>1, <3>1, IgnoresType, KeptIds
    <3> QED  BY <2>4, <2>5, <3>2
  <2> QED  BY <2>6, <2>7
<1> QED  BY <1>1, <1>2, <1>3, <1>4

\* A reader stays within the files of its offer.
LEMMA AdvanceType ==
  ASSUME NEW o \in Reader PROVE Advance(o) \in Reader \union {NoReader}
<1>1. /\ o.id \in Id /\ o.item \in 0 .. Items - 1 /\ o.chunk \in 0 .. Chunks
      /\ o = [id |-> o.id, item |-> o.item, chunk |-> o.chunk]
  BY DEF Reader
<1>2. CASE ~LastOfItem(o)
  <2>1. o.chunk + 1 \in 0 .. Chunks
    BY <1>1, <1>2, SizeAssumption DEF LastOfItem
  <2>2. Advance(o) = [id |-> o.id, item |-> o.item, chunk |-> o.chunk + 1]
    BY <1>1, <1>2 DEF Advance
  <2> QED  BY <1>1, <2>1, <2>2 DEF Reader
<1>3. CASE LastOfItem(o) /\ LastItem(o)
  BY <1>3 DEF Advance
<1>4. CASE LastOfItem(o) /\ ~LastItem(o)
  <2>1. o.item + 1 \in 0 .. Items - 1 /\ 0 \in 0 .. Chunks
    BY <1>1, <1>4, SizeAssumption DEF LastItem
  <2>2. Advance(o) = [id |-> o.id, item |-> o.item + 1, chunk |-> 0]
    BY <1>1, <1>4 DEF Advance
  <2> QED  BY <1>1, <2>1, <2>2 DEF Reader
<1> QED  BY <1>2, <1>3, <1>4

\* So does a writer, which takes messages in their turn only.
LEMMA WrittenType ==
  ASSUME NEW w \in Writer, NEW m, Accepts(w, m), m.type # "finish",
         m.type = "itemEnd" => m.item \in 0 .. Items - 1
  PROVE  Written(w, m) \in Writer
<1>1. /\ w.id \in Id /\ w.item \in 0 .. Items /\ w.chunk \in 0 .. Chunks
      /\ w.state \in {"awaitingBegin", "receiving", "readyToFinish"}
      /\ w = [id |-> w.id, state |-> w.state, item |-> w.item,
              chunk |-> w.chunk]
  BY DEF Writer
<1>2. CASE m.type = "begin"
  <2>1. Written(w, m) = [id |-> w.id, state |-> "receiving", item |-> w.item,
                         chunk |-> w.chunk]
    BY <1>1, <1>2 DEF Written
  <2> QED  BY <1>1, <2>1 DEF Writer
<1>3. CASE m.type = "chunk"
  <2>1. w.chunk + 1 \in 0 .. Chunks
    BY <1>1, <1>3, SizeAssumption DEF Accepts
  <2>2. Written(w, m) = [id |-> w.id, state |-> w.state, item |-> w.item,
                         chunk |-> w.chunk + 1]
    BY <1>1, <1>3 DEF Written
  <2> QED  BY <1>1, <2>1, <2>2 DEF Writer
<1>4. CASE m.type = "itemEnd"
  <2>1. w.item + 1 \in 0 .. Items /\ 0 \in 0 .. Chunks
    BY <1>1, <1>4, SizeAssumption DEF Accepts
  <2> DEFINE s == IF w.item + 1 = Items THEN "readyToFinish" ELSE "receiving"
  <2>2. Written(w, m) = [id |-> w.id, state |-> s, item |-> w.item + 1,
                         chunk |-> 0]
    BY <1>1, <1>4 DEF Written
  <2> QED  BY <1>1, <2>1, <2>2 DEF Writer
<1> QED  BY <1>2, <1>3, <1>4 DEF Accepts

\* The source: decisions and reading.
LEMMA SourceActionsType ==
  ASSUME FullType,
         \/ \E n \in Node, r \in BOOLEAN : handleDecision(n, r)
         \/ \E n \in Node, r, o \in BOOLEAN : processNextOutgoingChunk(n, r, o)
  PROVE  FullType'
<1> USE DEF FullType
<1>0. 0 \in 0 .. Items - 1 /\ 0 \in 0 .. Chunks
  BY SizeAssumption
<1>1. ASSUME NEW n \in Node, NEW r \in BOOLEAN, handleDecision(n, r)
      PROVE  FullType'
  <2> DEFINE t == Head(inbox[n]).id
  <2>1. inbox[n] # << >> /\ Head(inbox[n]).type \in {"accept", "reject"}
    BY <1>1 DEF handleDecision, Receives
  <2>2. t \in Id /\ Taken(n) \in [Node -> Seq(Message)]
    BY <2>1, TakenType, MessageFields
  <2>3. IdType' /\ EdgeType' /\ connected' = connected /\ connects' = connects
          /\ entitled' = entitled
    BY <1>1, KeptIds, KeptEdges DEF handleDecision, peerVars
  <2>4. << >> \in Seq(Message) /\ <<Begin(t)>> \in Seq(Message)
    <3>1. Begin(t) \in Message
      BY <2>2 DEF Begin, Message
    <3> QED  BY <3>1
  <2>5. OtherEnd(n, t) \in Node
    BY <2>2, OtherEndType
  <2>6. CASE failSession(n, t, << >>, Taken(n)) /\ UNCHANGED sendScheduled
    BY <2>2, <2>3, <2>4, <2>6, FailType DEF PeerType
  <2>7. CASE Ignores(n) /\ UNCHANGED sendScheduled
    BY <2>1, <2>3, <2>7, IgnoresType DEF PeerType
  <2>8. CASE /\ phase' = [phase EXCEPT ![n][t] = "rejected"]
             /\ inbox' = Taken(n)
             /\ UNCHANGED <<upstream, outgoing, incoming, sendScheduled>>
    <3>1. SessionType'
      BY <2>2, <2>8 DEF SessionType, Phase, Ended
    <3>2. NetType'
      BY <2>2, <2>8 DEF NetType
    <3> QED  BY <2>3, <2>8, <3>1, <3>2 DEF PeerType
  <2>9. CASE /\ phase' = [phase EXCEPT ![n][t] = "sending"]
             /\ outgoing' = [outgoing EXCEPT
                               ![n] = [id |-> t, item |-> 0, chunk |-> 0]]
             /\ Posts(n, OtherEnd(n, t), <<Begin(t)>>, Taken(n))
             /\ sendScheduled' = sendScheduled \union {n}
             /\ UNCHANGED incoming
    <3>1. SessionType'
      BY <1>0, <2>2, <2>9 DEF SessionType, Phase, Live, Reader
    <3>2. NetType'
      BY <2>2, <2>4, <2>5, <2>9, PostsType
    <3> QED  BY <2>3, <2>9, <3>1, <3>2 DEF PeerType
  <2> QED  BY <1>1, <2>6, <2>7, <2>8, <2>9 DEF handleDecision
<1>2. ASSUME NEW n \in Node, NEW r \in BOOLEAN, NEW op \in BOOLEAN,
             processNextOutgoingChunk(n, r, op)
      PROVE  FullType'
  <2> DEFINE o == outgoing[n]
  <2>1. IdType' /\ EdgeType' /\ connected' = connected /\ connects' = connects
          /\ entitled' = entitled
    BY <1>2, KeptIds, KeptEdges DEF processNextOutgoingChunk, peerVars
  <2>2. PeerType'
    BY <1>2, <2>1 DEF processNextOutgoingChunk, PeerType
  <2>3. CASE o = NoReader
    <3>1. UNCHANGED <<sessionVars, netVars>>
      BY <1>2, <2>3 DEF processNextOutgoingChunk
    <3> QED  BY <2>1, <2>2, <3>1, KeptSessions, KeptNet
  <2>4. CASE o # NoReader
    <3>1. o \in Reader /\ o.id \in Id
      BY <2>4 DEF SessionType, Reader
    <3>2. Pieces(o) \in Seq(Message) /\ << >> \in Seq(Message)
      BY <3>1, PiecesAreMessages
    <3>3. inbox \in [Node -> Seq(Message)] /\ OtherEnd(n, o.id) \in Node
      BY <3>1, OtherEndType DEF NetType
    <3>4. Advance(o) \in Reader \union {NoReader}
      BY <3>1, AdvanceType
    <3>5. CASE \/ failSession(n, o.id, << >>, inbox)
               \/ failSession(n, o.id, Pieces(o), inbox)
      BY <2>1, <2>2, <3>1, <3>2, <3>3, <3>5, FailType
    <3>6. CASE /\ outgoing' = [outgoing EXCEPT ![n] = Advance(o)]
               /\ phase' = [phase EXCEPT ![n][o.id] = PhaseOnceSent(o)]
               /\ Posts(n, OtherEnd(n, o.id), Pieces(o), inbox)
               /\ UNCHANGED incoming
      <4>1. SessionType'
        BY <3>1, <3>4, <3>6 DEF SessionType, Phase, Live, PhaseOnceSent
      <4>2. NetType'
        BY <3>2, <3>3, <3>6, PostsType
      <4> QED  BY <2>1, <2>2, <4>1, <4>2
    <3> QED  BY <1>2, <2>4, <3>5, <3>6 DEF processNextOutgoingChunk
  <2> QED  BY <2>3, <2>4
<1> QED  BY <1>1, <1>2

\* The target: offers and data.
LEMMA TargetActionsType ==
  ASSUME FullType,
         \E n \in Node, w \in BOOLEAN : handleOffer(n, w) \/ handleData(n, w)
  PROVE  FullType'
<1> USE DEF FullType
<1>0. 0 \in 0 .. Items /\ 0 \in 0 .. Chunks
  BY SizeAssumption
<1>1. ASSUME NEW n \in Node, NEW w \in BOOLEAN, handleOffer(n, w)
      PROVE  FullType'
  <2> DEFINE t == Head(inbox[n]).id
  <2>1. inbox[n] # << >> /\ Head(inbox[n]).type = "offer"
    BY <1>1 DEF handleOffer, Receives
  <2>2. t \in Id /\ Taken(n) \in [Node -> Seq(Message)]
    BY <2>1, TakenType, MessageFields
  <2>3. IdType' /\ EdgeType' /\ PeerType'
    BY <1>1, KeptIds, KeptEdges DEF handleOffer, PeerType, peerVars
  <2>4. OtherEnd(n, t) \in Node
    BY <2>2, OtherEndType
  <2>5. \A y \in {"reject", "accept"} : <<Control(y, t)>> \in Seq(Message)
    BY <2>2, ControlIsMessage
  <2>6. CASE Ignores(n)
    BY <2>1, <2>3, <2>6, IgnoresType
  <2>7. CASE /\ phase' = [phase EXCEPT ![n][t] = "rejected"]
             /\ Posts(n, OtherEnd(n, t), <<Control("reject", t)>>, Taken(n))
             /\ UNCHANGED <<outgoing, incoming>>
    <3>1. SessionType'
      BY <2>2, <2>7 DEF SessionType, Phase, Ended
    <3>2. NetType'
      BY <2>2, <2>4, <2>5, <2>7, PostsType
    <3> QED  BY <2>3, <3>1, <3>2
  <2>8. CASE /\ phase' = [phase EXCEPT ![n][t] = "awaitingData"]
             /\ incoming' = [incoming EXCEPT
                  ![n] = [id |-> t, state |-> "awaitingBegin", item |-> 0,
                          chunk |-> 0]]
             /\ Posts(n, OtherEnd(n, t), <<Control("accept", t)>>, Taken(n))
             /\ UNCHANGED outgoing
    <3>1. SessionType'
      BY <1>0, <2>2, <2>8 DEF SessionType, Phase, Live, Writer
    <3>2. NetType'
      BY <2>2, <2>4, <2>5, <2>8, PostsType
    <3> QED  BY <2>3, <3>1, <3>2
  <2>9. CASE /\ phase' = [phase EXCEPT ![n][t] = "failed"]
             /\ inbox' = Taken(n) /\ UNCHANGED <<upstream, outgoing, incoming>>
    <3>1. SessionType'
      BY <2>2, <2>9 DEF SessionType, Phase, Ended
    <3>2. NetType'
      BY <2>2, <2>9 DEF NetType
    <3> QED  BY <2>3, <3>1, <3>2
  <2> QED  BY <1>1, <2>6, <2>7, <2>8, <2>9 DEF handleOffer
<1>2. ASSUME NEW n \in Node, NEW w \in BOOLEAN, handleData(n, w)
      PROVE  FullType'
  <2> DEFINE m == Head(inbox[n])
             t == m.id
  <2>1. /\ inbox[n] # << >>
        /\ m.type \in {"begin", "chunk", "itemEnd", "finish"}
    BY <1>2 DEF handleData, Receives
  <2>2. /\ m \in Message /\ t \in Id
        /\ Taken(n) \in [Node -> Seq(Message)]
        /\ m.type = "itemEnd" => m.item \in 0 .. Items - 1
    BY <2>1, TakenType, MessageFields
  <2>3. IdType' /\ EdgeType' /\ PeerType'
    BY <1>2, KeptIds, KeptEdges DEF handleData, PeerType, peerVars
  <2>4. OtherEnd(n, t) \in Node
    BY <2>2, OtherEndType
  <2>5. << >> \in Seq(Message) /\ <<Control("completed", t)>> \in Seq(Message)
    BY <2>2, ControlIsMessage
  <2>6. CASE Ignores(n)
    BY <2>1, <2>3, <2>6, IgnoresType
  <2>7. CASE failSession(n, t, << >>, Taken(n))
    BY <2>2, <2>3, <2>5, <2>7, FailType
  <2>8. CASE /\ Posts(n, OtherEnd(n, t), <<Control("completed", t)>>, Taken(n))
             /\ Closes(n, t, "completed")
    <3>1. SessionType'
      BY <2>2, <2>8, ClosesType
    <3>2. NetType'
      BY <2>2, <2>4, <2>5, <2>8, PostsType
    <3> QED  BY <2>3, <3>1, <3>2
  <2>9. CASE /\ incoming[n].id = t /\ Accepts(incoming[n], m)
             /\ m.type # "finish"
             /\ incoming' = [incoming EXCEPT ![n] = Written(incoming[n], m)]
             /\ phase' = [phase EXCEPT ![n][t] = "receiving"]
             /\ inbox' = Taken(n) /\ UNCHANGED <<upstream, outgoing>>
    <3>1. incoming[n] \in Writer
      <4>1. incoming[n] \in Writer \union {NoWriter}
        BY DEF SessionType
      <4>2. NoWriter.id # t
        BY <2>2 DEF NoWriter, Id
      <4> QED  BY <2>9, <4>1, <4>2
    <3>2. Written(incoming[n], m) \in Writer
      BY <2>1, <2>2, <2>9, <3>1, WrittenType
    <3>3. SessionType'
      BY <2>2, <2>9, <3>2 DEF SessionType, Phase, Live
    <3>4. NetType'
      BY <2>2, <2>9 DEF NetType
    <3> QED  BY <2>3, <3>3, <3>4
  <2> QED  BY <1>2, <2>6, <2>7, <2>8, <2>9 DEF handleData
<1> QED  BY <1>1, <1>2

\* Results, routing, connections and licences.
LEMMA OtherActionsType ==
  ASSUME FullType,
         \/ \E n \in Node : handleResult(n)
         \/ \E c \in Conn : routeFileTransfer(c)
         \/ \E c \in Conn, n \in Node \union {NoScreen} :
              handleFileTransferEdge(c, n)
         \/ \E c \in Conn : Connect(c) \/ Disconnect(c)
         \/ \E n \in Node : Expire(n)
         \/ UNCHANGED vars
  PROVE  FullType'
<1> USE DEF FullType
<1>1. ASSUME NEW n \in Node, handleResult(n) PROVE FullType'
  <2> DEFINE m == Head(inbox[n])
  <2>1. inbox[n] # << >> /\ m.type \in {"completed", "failed"}
    BY <1>1 DEF handleResult, Receives
  <2>2. m.id \in Id /\ Taken(n) \in [Node -> Seq(Message)]
    BY <2>1, TakenType, MessageFields
  <2>3. IdType' /\ EdgeType' /\ PeerType'
    BY <1>1, KeptIds, KeptEdges DEF handleResult, PeerType, peerVars
  <2>4. CASE Ignores(n)
    BY <2>1, <2>3, <2>4, IgnoresType
  <2>5. CASE Closes(n, m.id, m.type) /\ inbox' = Taken(n) /\ UNCHANGED upstream
    <3>1. SessionType'
      BY <2>1, <2>2, <2>5, ClosesType
    <3>2. NetType'
      BY <2>2, <2>5 DEF NetType
    <3> QED  BY <2>3, <3>1, <3>2
  <2> QED  BY <1>1, <2>4, <2>5 DEF handleResult
<1>2. ASSUME NEW c \in Conn, routeFileTransfer(c) PROVE FullType'
  <2> DEFINE to == OtherEnd(c, Head(upstream[c]).id)
  <2>1. /\ Head(upstream[c]) \in Message
        /\ Tail(upstream[c]) \in Seq(Message)
    <3>1. upstream[c] \in Seq(Message) /\ upstream[c] # << >>
      BY <1>2 DEF routeFileTransfer, NetType
    <3> QED  BY ONLY <3>1
  <2>2. SessionType' /\ IdType' /\ EdgeType' /\ PeerType'
    BY <1>2, KeptSessions, KeptIds, KeptEdges
    DEF routeFileTransfer, PeerType, peerVars
  <2>3. \/ inbox' = inbox
        \/ inbox' = [inbox EXCEPT ![to] = Append(@, Head(upstream[c]))]
             /\ to \in Node
    BY <1>2 DEF routeFileTransfer, Running, PeerType, Node
  <2>4. inbox' \in [Node -> Seq(Message)]
    <3>1. CASE inbox' = inbox
      BY <3>1 DEF NetType
    <3>2. CASE /\ inbox' = [inbox EXCEPT ![to] = Append(@, Head(upstream[c]))]
               /\ to \in Node
      <4>1. Append(inbox[to], Head(upstream[c])) \in Seq(Message)
        BY <2>1, <3>2 DEF NetType
      <4> HIDE DEF to
      <4> QED  BY <3>2, <4>1 DEF NetType
    <3> QED  BY <2>3, <3>1, <3>2
  <2>5. upstream' \in [Conn -> Seq(Message)]
    BY <1>2, <2>1 DEF routeFileTransfer, NetType
  <2> QED  BY <2>2, <2>4, <2>5 DEF NetType
<1>3. ASSUME NEW c \in Conn, NEW n \in Node \union {NoScreen},
             handleFileTransferEdge(c, n)
      PROVE  FullType'
  <2> DEFINE r == Head(upstream[c]).request
  <2>1. /\ Head(upstream[c]) \in Message /\ Head(upstream[c]).type = "request"
        /\ Tail(upstream[c]) \in Seq(Message)
    BY <1>3 DEF handleFileTransferEdge, NetType
  <2>2. Response(r, n) \in Message
    BY <2>1, MessageFields DEF Response, Message
  <2>3. c \in Node
    BY DEF Node
  <2>4. Append(inbox[c], Response(r, n)) \in Seq(Message)
    BY <2>2, <2>3 DEF NetType
  <2>5. /\ inbox' = [inbox EXCEPT ![c] = Append(inbox[c], Response(r, n))]
        /\ upstream' = [upstream EXCEPT ![c] = Tail(upstream[c])]
        /\ answer' = [answer EXCEPT ![r] = n]
        /\ requests' = requests /\ pendingEdge' = pendingEdge
    BY <1>3 DEF handleFileTransferEdge
  <2>6. NetType'
    BY <2>1, <2>4, <2>5 DEF NetType
  <2>7. EdgeType'
    BY <2>5 DEF EdgeType
  <2>8. SessionType' /\ IdType' /\ PeerType'
    BY <1>3, KeptSessions, KeptIds
    DEF handleFileTransferEdge, PeerType, peerVars
  <2> QED  BY <2>6, <2>7, <2>8
<1>4. ASSUME NEW c \in Conn, Connect(c) PROVE FullType'
  <2>1. SessionType' /\ IdType' /\ EdgeType' /\ NetType'
    BY <1>4, KeptSessions, KeptIds, KeptEdges, KeptNet DEF Connect
  <2>2. connects[c] + 1 \in 0 .. MaxConnects
    BY <1>4, BoundAssumption DEF Connect, PeerType
  <2>3. PeerType'
    BY <1>4, <2>2 DEF Connect, PeerType
  <2> QED  BY <2>1, <2>3
<1>5. ASSUME NEW c \in Conn, Disconnect(c) PROVE FullType'
  <2>1. c \in Node /\ << >> \in Seq(Message) /\ 0 \in 0 .. MaxRequests
    BY BoundAssumption DEF Node
  <2>2. SessionType'
    BY <1>5, <2>1 DEF Disconnect, SessionType, Phase
  <2>3. IdType'
    BY <1>5, KeptIds DEF Disconnect
  <2>4. EdgeType'
    <3>1. /\ pendingEdge' = [pendingEdge EXCEPT ![c] = 0]
          /\ requests' = requests /\ answer' = answer
      BY <1>5 DEF Disconnect
    <3> QED  BY <2>1, <3>1 DEF EdgeType
  <2>5. PeerType'
    BY <1>5 DEF Disconnect, PeerType
  <2>6. NetType'
    BY <1>5, <2>1 DEF Disconnect, NetType
  <2> QED  BY <2>2, <2>3, <2>4, <2>5, <2>6
<1>6. ASSUME NEW n \in Node, Expire(n) PROVE FullType'
  <2>1. SessionType' /\ IdType' /\ EdgeType' /\ NetType'
    BY <1>6, KeptSessions, KeptIds, KeptEdges, KeptNet DEF Expire
  <2>2. PeerType'
    BY <1>6 DEF Expire, PeerType, peerVars
  <2> QED  BY <2>1, <2>2
<1>7. ASSUME UNCHANGED vars PROVE FullType'
  BY <1>7
  DEF vars, SessionType, IdType, EdgeType, PeerType, NetType
<1> QED  BY <1>1, <1>2, <1>3, <1>4, <1>5, <1>6, <1>7

LEMMA TypeStep == FullType /\ [Next]_vars => FullType'
BY EdgeActionsType, SourceActionsType, TargetActionsType, OtherActionsType
DEF Next, Rests

LEMMA FullTypeInvariant == Spec => []FullType
BY InitType, TypeStep, PTL DEF Spec

\* The services, streams and routes keep their types, and readers and writers
\* stay within the files of their offers, whatever fails in whatever order.
THEOREM TypeCorrect == Spec => []TypeOK
<1>1. FullType => TypeOK
  BY TypeGroups DEF FullType
<1>2. QED  BY <1>1, FullTypeInvariant, PTL

-----------------------------------------------------------------------------
(* One session, and what it needs.                                         *)

\* Computer n's slot.
Slot(n) ==
  /\ \A t, u \in Sessions(n) : t = u
  /\ outgoing[n] # NoReader =>
       outgoing[n].id \in Id /\ phase[n][outgoing[n].id] = "sending"
       /\ n \in sendScheduled
  /\ \A t \in Id : incoming[n].id = t <=>
       phase[n][t] \in {"awaitingData", "receiving"}
Slots == \A n \in Node : Slot(n)

LEMMA SlotsSuffice == Slots => ResourcesMatchSessions
<1> SUFFICES ASSUME Slots, NEW n \in Node PROVE Cardinality(Sessions(n)) <= 1
  BY DEF Slots, Slot, ResourcesMatchSessions
<1>1. CASE Sessions(n) = {}
  BY <1>1, FS_EmptySet
<1>2. CASE Sessions(n) # {}
  <2>1. PICK t \in Sessions(n) : TRUE
    BY <1>2
  <2>2. Sessions(n) = {t}
    BY <2>1 DEF Slots, Slot
  <2>3. Cardinality({t}) = 1
    BY FS_Singleton
  <2> QED  BY <2>2, <2>3
<1> QED  BY <1>1, <1>2

\* What leaves a slot alone.
LEMMA SlotKept ==
  ASSUME NEW n \in Node, Slot(n), phase'[n] = phase[n],
         outgoing'[n] = outgoing[n], incoming'[n] = incoming[n],
         n \in sendScheduled => n \in sendScheduled'
  PROVE  Slot(n)'
BY DEF Slot, Sessions

\* Ending a session with all that belongs to it.  The queued send event may
\* stay: it finds nothing to read.
LEMMA ClosesKeepsSlots ==
  ASSUME SessionType, Slots, NEW n \in Node, NEW t \in Sessions(n),
         NEW how \in {"completed", "failed"}, Closes(n, t, how),
         sendScheduled \ {n} \subseteq sendScheduled'
  PROVE  Slots'
<1> SUFFICES ASSUME NEW m \in Node PROVE Slot(m)'
  BY DEF Slots
<1>1. CASE m # n
  <2>1. /\ phase'[m] = phase[m] /\ outgoing'[m] = outgoing[m]
        /\ incoming'[m] = incoming[m]
        /\ m \in sendScheduled => m \in sendScheduled'
    BY <1>1 DEF Closes, SessionType
  <2> QED  BY <2>1, SlotKept DEF Slots
<1>2. CASE m = n
  <2>1. t \in Id /\ phase[n][t] \in Live /\ Slot(n)
    BY DEF Sessions, Slots
  <2>2. /\ phase'[n] = [phase[n] EXCEPT ![t] = how]
        /\ phase[n] \in [Id -> Phase]
        /\ outgoing'[n] = IF outgoing[n].id = t THEN NoReader ELSE outgoing[n]
        /\ incoming'[n] = IF incoming[n].id = t THEN NoWriter ELSE incoming[n]
    BY DEF Closes, SessionType
  <2>3. \A u \in Id : phase'[n][u] = IF u = t THEN how ELSE phase[n][u]
    BY <2>1, <2>2
  <2>4. \A u \in Id : u # t => phase[n][u] \notin Live
    BY <2>1 DEF Slot, Sessions
  <2>5. Sessions(n)' = {}
    BY <2>3, <2>4 DEF Sessions, Live
  <2>6. outgoing'[n] = NoReader
    <3>1. outgoing[n] # NoReader => outgoing[n].id = t
      BY <2>1, <2>4 DEF Slot, Live
    <3> QED  BY <2>2, <3>1
  <2>7. \A u \in Id : incoming'[n].id # u
    <3>1. \A u \in Id : incoming[n].id = u => u = t
      BY <2>1, <2>4 DEF Slot, Live
    <3>2. \A u \in Id : NoWriter.id # u
      BY DEF NoWriter, Id
    <3> QED  BY <2>2, <3>1, <3>2
  <2>8. \A u \in Id : phase'[n][u] \notin {"awaitingData", "receiving"}
    BY <2>3, <2>4 DEF Live
  <2>9. Slot(n)'
    BY <2>5, <2>6, <2>7, <2>8 DEF Slot
  <2> QED  BY <1>2, <2>9
<1> QED  BY <1>1, <1>2

LEMMA FailKeepsSlots ==
  ASSUME SessionType, Slots, NEW n \in Node, NEW t \in Id, NEW ms, NEW in,
         failSession(n, t, ms, in),
         t \in Sessions(n) \/ sendScheduled \subseteq sendScheduled',
         sendScheduled \ {n} \subseteq sendScheduled'
  PROVE  Slots'
<1>1. CASE t \in Sessions(n)
  BY <1>1, ClosesKeepsSlots DEF failSession
<1>2. CASE t \notin Sessions(n)
  <2>1. UNCHANGED sessionVars /\ sendScheduled \subseteq sendScheduled'
    BY <1>2 DEF failSession
  <2> QED  BY <2>1, SlotKept DEF Slots, sessionVars
<1> QED  BY <1>1, <1>2

LEMMA KeptSlots ==
  Slots /\ UNCHANGED sessionVars /\ sendScheduled \subseteq sendScheduled'
    => Slots'
BY SlotKept DEF Slots, sessionVars

\* A session that a service takes up when it has none, as a source or target.
LEMMA StartKeepsSlots ==
  ASSUME SessionType, Slots, NEW n \in Node, NEW t \in Id, Idle(n),
         UNCHANGED <<outgoing, sendScheduled>>,
         \/ /\ phase' = [phase EXCEPT ![n][t] = "awaitingDecision"]
            /\ UNCHANGED incoming
         \/ /\ phase' = [phase EXCEPT ![n][t] = "awaitingData"]
            /\ incoming' = [incoming EXCEPT
                 ![n] = [id |-> t, state |-> "awaitingBegin", item |-> 0,
                         chunk |-> 0]]
  PROVE  Slots'
<1> SUFFICES ASSUME NEW m \in Node PROVE Slot(m)'
  BY DEF Slots
<1>1. CASE m # n
  <2>1. /\ phase'[m] = phase[m] /\ outgoing'[m] = outgoing[m]
        /\ incoming'[m] = incoming[m] /\ sendScheduled' = sendScheduled
    BY <1>1 DEF SessionType
  <2> QED  BY <2>1, SlotKept DEF Slots
<1>2. CASE m = n
  <2>1. \A u \in Id : phase[n][u] \notin Live
    BY DEF Idle, Sessions
  <2>2. outgoing[n] = NoReader /\ \A u \in Id : incoming[n].id # u
    BY <2>1 DEF Slots, Slot, Live
  <2>3. PICK h \in {"awaitingDecision", "awaitingData"} :
          /\ \A u \in Id : phase'[n][u] = IF u = t THEN h ELSE phase[n][u]
          /\ \A u \in Id : incoming'[n].id = u <=> h = "awaitingData" /\ u = t
    BY <2>2 DEF SessionType
  <2>4. Sessions(n)' = {t}
    BY <2>1, <2>3 DEF Sessions, Live
  <2>5. \A u \in Id : incoming'[n].id = u <=>
          phase'[n][u] \in {"awaitingData", "receiving"}
    BY <2>1, <2>3 DEF Live
  <2>6. outgoing'[n] = NoReader
    BY <2>2
  <2>7. Slot(n)'
    BY <2>4, <2>5, <2>6 DEF Slot
  <2> QED  BY <1>2, <2>7
<1> QED  BY <1>1, <1>2

\* An offer that is turned down at once, or a decision that turns one down.
LEMMA RejectKeepsSlots ==
  ASSUME SessionType, Slots, NEW n \in Node, NEW t \in Id,
         phase[n][t] \notin {"awaitingData", "receiving", "sending"},
         NEW how \in Ended, phase' = [phase EXCEPT ![n][t] = how],
         UNCHANGED <<outgoing, incoming, sendScheduled>>
  PROVE  Slots'
<1> SUFFICES ASSUME NEW m \in Node PROVE Slot(m)'
  BY DEF Slots
<1>1. CASE m # n
  <2>1. phase'[m] = phase[m]
    BY <1>1 DEF SessionType
  <2> QED  BY <2>1, SlotKept DEF Slots
<1>2. CASE m = n
  <2>1. \A u \in Id : phase'[n][u] = IF u = t THEN how ELSE phase[n][u]
    BY DEF SessionType
  <2>2. how \notin Live
    BY DEF Ended, Live
  <2>3. Sessions(n)' \subseteq Sessions(n)
    BY <2>1, <2>2 DEF Sessions
  <2>4. Slot(n)
    BY DEF Slots
  <2>5. \A u \in Id : incoming[n].id = u <=>
          phase'[n][u] \in {"awaitingData", "receiving"}
    BY <2>1, <2>2, <2>4 DEF Slot, Live
  <2>6. outgoing[n] # NoReader => outgoing[n].id # t
    BY <2>4 DEF Slot
  <2>7. Slot(n)'
    BY <2>1, <2>3, <2>4, <2>5, <2>6 DEF Slot
  <2> QED  BY <1>2, <2>7
<1> QED  BY <1>1, <1>2

LEMMA SlotsStep == FullType /\ Slots /\ [Next]_vars => Slots'
<1> SUFFICES ASSUME FullType, Slots, [Next]_vars PROVE Slots'
  OBVIOUS
<1> USE DEF FullType
<1>1. ASSUME NEW c \in Conn, DropOnPrimary(c) PROVE Slots'
  <2>1. drawn + 1 \in Id /\ Primary \in Node
    BY <1>1, BoundAssumption
    DEF DropOnPrimary, offerLocalFiles, IdType, Id, Node
  <2>2. /\ Idle(Primary) /\ UNCHANGED <<outgoing, incoming, sendScheduled>>
        /\ phase' = [phase EXCEPT ![Primary][drawn + 1] = "awaitingDecision"]
    BY <1>1 DEF DropOnPrimary, offerLocalFiles
  <2> QED  BY <2>1, <2>2, StartKeepsSlots
<1>2. ASSUME NEW c \in Conn, DropOnClient(c) PROVE Slots'
  BY <1>2, KeptSlots DEF DropOnClient
<1>3. ASSUME NEW c \in Conn, expirePendingEdgeRequest(c) PROVE Slots'
  BY <1>3, KeptSlots DEF expirePendingEdgeRequest
<1>4. ASSUME NEW n \in Node, handleEdgeMessage(n) PROVE Slots'
  <2>1. CASE Ignores(n)
    BY <1>4, <2>1, KeptSlots DEF handleEdgeMessage, Ignores
  <2>2. CASE ~Ignores(n)
    <3>1. /\ Idle(n) /\ drawn < MaxTransfers
          /\ phase' = [phase EXCEPT ![n][drawn + 1] = "awaitingDecision"]
          /\ UNCHANGED <<outgoing, incoming, sendScheduled>>
      BY <1>4, <2>2 DEF handleEdgeMessage, offerLocalFiles
    <3>2. drawn + 1 \in Id
      BY <3>1, BoundAssumption DEF IdType, Id
    <3> QED  BY <3>1, <3>2, StartKeepsSlots
  <2> QED  BY <2>1, <2>2
<1>5. ASSUME NEW n \in Node, NEW w \in BOOLEAN, handleOffer(n, w) PROVE Slots'
  <2> DEFINE t == Head(inbox[n]).id
  <2>1. t \in Id /\ UNCHANGED sendScheduled
    BY <1>5, TakenType, MessageFields DEF handleOffer, Receives
  <2>2. CASE Ignores(n)
    BY <2>1, <2>2, KeptSlots DEF Ignores
  <2>3. CASE ~Ignores(n)
    <3>1. Idle(n)
      BY <1>5, <2>3 DEF handleOffer
    <3>2. phase[n][t] \notin Live
      BY <2>1, <3>1 DEF Idle, Sessions
    <3>3. \/ /\ phase' = [phase EXCEPT ![n][t] = "rejected"]
             /\ UNCHANGED <<outgoing, incoming>>
          \/ /\ phase' = [phase EXCEPT ![n][t] = "failed"]
             /\ UNCHANGED <<outgoing, incoming>>
          \/ /\ phase' = [phase EXCEPT ![n][t] = "awaitingData"]
             /\ incoming' = [incoming EXCEPT
                  ![n] = [id |-> t, state |-> "awaitingBegin", item |-> 0,
                          chunk |-> 0]]
             /\ UNCHANGED outgoing
      BY <1>5, <2>3 DEF handleOffer
    <3>4. /\ {"rejected", "failed"} \subseteq Ended
          /\ phase[n][t] \notin {"awaitingData", "receiving", "sending"}
      BY <3>2 DEF Ended, Live
    <3> HIDE DEF t
    <3> QED  BY <2>1, <3>1, <3>3, <3>4, StartKeepsSlots, RejectKeepsSlots
  <2> QED  BY <2>2, <2>3
<1>6. ASSUME NEW n \in Node, NEW r \in BOOLEAN, handleDecision(n, r)
      PROVE  Slots'
  <2> DEFINE t == Head(inbox[n]).id
  <2>1. t \in Id
    BY <1>6, TakenType, MessageFields DEF handleDecision, Receives
  <2>2. CASE failSession(n, t, << >>, Taken(n)) /\ UNCHANGED sendScheduled
    BY <2>1, <2>2, FailKeepsSlots
  <2>3. CASE Ignores(n) /\ UNCHANGED sendScheduled
    BY <2>3, KeptSlots DEF Ignores
  <2>4. CASE /\ AwaitsDecision(n, t)
             /\ phase' = [phase EXCEPT ![n][t] = "rejected"]
             /\ UNCHANGED <<outgoing, incoming, sendScheduled>>
    <3>1. phase[n][t] = "awaitingDecision" /\ "rejected" \in Ended
      BY <2>4 DEF AwaitsDecision, Ended
    <3> HIDE DEF t
    <3> QED  BY <2>1, <2>4, <3>1, RejectKeepsSlots
  <2>5. CASE /\ AwaitsDecision(n, t)
             /\ phase' = [phase EXCEPT ![n][t] = "sending"]
             /\ outgoing' = [outgoing EXCEPT
                               ![n] = [id |-> t, item |-> 0, chunk |-> 0]]
             /\ sendScheduled' = sendScheduled \union {n}
             /\ UNCHANGED incoming
    <3> SUFFICES ASSUME NEW m \in Node PROVE Slot(m)'
      BY DEF Slots
    <3>1. CASE m # n
      <4>1. /\ phase'[m] = phase[m] /\ outgoing'[m] = outgoing[m]
            /\ incoming'[m] = incoming[m]
            /\ m \in sendScheduled => m \in sendScheduled'
        BY <2>5, <3>1 DEF SessionType
      <4> QED  BY <4>1, SlotKept DEF Slots
    <3>2. CASE m = n
      <4>1. Slot(n) /\ phase[n][t] = "awaitingDecision"
        BY <2>5 DEF Slots, AwaitsDecision
      <4>2. \A u \in Id :
              phase'[n][u] = IF u = t THEN "sending" ELSE phase[n][u]
        BY <2>1, <2>5 DEF SessionType
      <4>3. outgoing'[n].id = t /\ n \in sendScheduled' /\ incoming' = incoming
        BY <2>5 DEF SessionType
      <4>4. Sessions(n)' \subseteq Sessions(n)
        BY <4>1, <4>2 DEF Sessions, Live
      <4>5. \A u \in Id : incoming'[n].id = u <=>
              phase'[n][u] \in {"awaitingData", "receiving"}
        BY <4>1, <4>2, <4>3 DEF Slot
      <4>6. Slot(n)'
        BY <2>1, <4>1, <4>2, <4>3, <4>4, <4>5 DEF Slot
      <4> QED  BY <3>2, <4>6
    <3> QED  BY <3>1, <3>2
  <2> QED  BY <1>6, <2>2, <2>3, <2>4, <2>5 DEF handleDecision
<1>7. ASSUME NEW n \in Node, NEW r \in BOOLEAN, NEW op \in BOOLEAN,
             processNextOutgoingChunk(n, r, op)
      PROVE  Slots'
  <2> DEFINE o == outgoing[n]
  <2>1. Slot(n)
    BY DEF Slots
  <2>2. CASE o = NoReader
    <3>1. UNCHANGED sessionVars /\ sendScheduled' = sendScheduled \ {n}
      BY <1>7, <2>2 DEF processNextOutgoingChunk
    <3> SUFFICES ASSUME NEW m \in Node PROVE Slot(m)'
      BY DEF Slots
    <3>2. CASE m # n
      BY <3>1, <3>2, SlotKept DEF Slots, sessionVars
    <3>3. CASE m = n
      <4>1. Slot(n)'
        BY <2>1, <2>2, <3>1 DEF Slot, Sessions, sessionVars
      <4> QED  BY <3>3, <4>1
    <3> QED  BY <3>2, <3>3
  <2>3. CASE o # NoReader
    <3>1. o.id \in Id /\ phase[n][o.id] = "sending" /\ o.id \in Sessions(n)
      BY <2>1, <2>3 DEF Slot, Sessions, Live
    <3>2. CASE /\ sendScheduled' = sendScheduled \ {n}
               /\ \E ms : failSession(n, o.id, ms, inbox)
      BY <3>1, <3>2, FailKeepsSlots
    <3>3. CASE /\ outgoing' = [outgoing EXCEPT ![n] = Advance(o)]
               /\ sendScheduled' = IF Advance(o) = NoReader
                                   THEN sendScheduled \ {n} ELSE sendScheduled
               /\ phase' = [phase EXCEPT ![n][o.id] = PhaseOnceSent(o)]
               /\ UNCHANGED incoming
      <4>1. phase' = phase
        BY <3>1, <3>3 DEF PhaseOnceSent, SessionType
      <4>2. outgoing'[n] = Advance(o)
        BY <3>3 DEF SessionType
      <4>3. Advance(o) = NoReader \/ Advance(o).id = o.id
        BY DEF Advance
      <4>4. Advance(o) # NoReader => n \in sendScheduled'
        BY <2>1, <2>3, <3>3 DEF Slot
      <4>5. Slot(n)'
        BY <2>1, <3>1, <3>3, <4>1, <4>2, <4>3, <4>4 DEF Slot, Sessions
      <4> SUFFICES ASSUME NEW m \in Node PROVE Slot(m)'
        BY DEF Slots
      <4>6. CASE m # n
        <5>1. /\ outgoing'[m] = outgoing[m]
              /\ m \in sendScheduled => m \in sendScheduled'
          BY <3>3, <4>6 DEF SessionType
        <5> QED  BY <3>3, <4>1, <5>1, SlotKept DEF Slots
      <4> QED  BY <4>5, <4>6
    <3> QED  BY <1>7, <2>3, <3>2, <3>3 DEF processNextOutgoingChunk
  <2> QED  BY <2>2, <2>3
<1>8. ASSUME NEW n \in Node, NEW w \in BOOLEAN, handleData(n, w) PROVE Slots'
  <2> DEFINE m == Head(inbox[n])
             t == m.id
  <2>1. t \in Id /\ UNCHANGED sendScheduled
    BY <1>8, TakenType, MessageFields DEF handleData, Receives
  <2>2. CASE Ignores(n)
    BY <2>1, <2>2, KeptSlots DEF Ignores
  <2>3. CASE failSession(n, t, << >>, Taken(n))
    BY <2>1, <2>3, FailKeepsSlots
  <2>4. CASE t \in Sessions(n) /\ Closes(n, t, "completed")
    BY <2>1, <2>4, ClosesKeepsSlots
  <2>5. CASE /\ t \in Sessions(n) /\ incoming[n].id = t
             /\ incoming' = [incoming EXCEPT ![n] = Written(incoming[n], m)]
             /\ phase' = [phase EXCEPT ![n][t] = "receiving"]
             /\ UNCHANGED outgoing
    <3>1. Slot(n) /\ phase[n][t] \in {"awaitingData", "receiving"}
      BY <2>1, <2>5 DEF Slots, Slot
    <3>2. Written(incoming[n], m).id = t
      BY <2>1, <2>5 DEF Written, SessionType, Writer, NoWriter, Id
    <3>3. incoming'[n].id = t
      BY <2>5, <3>2 DEF SessionType
    <3>4. \A u \in Id :
            phase'[n][u] = IF u = t THEN "receiving" ELSE phase[n][u]
      BY <2>1, <2>5 DEF SessionType
    <3>5. Sessions(n)' = Sessions(n)
      BY <3>1, <3>4 DEF Sessions, Live
    <3>6. \A u \in Id : incoming'[n].id = u <=>
            phase'[n][u] \in {"awaitingData", "receiving"}
      BY <2>5, <3>1, <3>3, <3>4 DEF Slot
    <3>7. Slot(n)'
      BY <2>1, <2>5, <3>1, <3>4, <3>5, <3>6 DEF Slot
    <3> SUFFICES ASSUME NEW p \in Node PROVE Slot(p)'
      BY DEF Slots
    <3>8. CASE p # n
      <4>1. /\ phase'[p] = phase[p] /\ incoming'[p] = incoming[p]
            /\ outgoing'[p] = outgoing[p]
        BY <2>5, <3>8 DEF SessionType
      <4> QED  BY <2>1, <4>1, SlotKept DEF Slots
    <3> QED  BY <3>7, <3>8
  <2> QED  BY <1>8, <2>2, <2>3, <2>4, <2>5 DEF handleData
<1>9. ASSUME NEW n \in Node, handleResult(n) PROVE Slots'
  <2> DEFINE m == Head(inbox[n])
  <2>1. m.type \in {"completed", "failed"} /\ UNCHANGED sendScheduled
    BY <1>9 DEF handleResult, Receives
  <2>2. CASE Ignores(n)
    BY <2>1, <2>2, KeptSlots DEF Ignores
  <2>3. CASE m.id \in Sessions(n) /\ Closes(n, m.id, m.type)
    BY <2>1, <2>3, ClosesKeepsSlots
  <2> QED  BY <1>9, <2>2, <2>3 DEF handleResult
<1>10. ASSUME NEW c \in Conn, routeFileTransfer(c) PROVE Slots'
  BY <1>10, KeptSlots DEF routeFileTransfer
<1>11. ASSUME NEW c \in Conn, NEW n \in Node \union {NoScreen},
              handleFileTransferEdge(c, n)
       PROVE  Slots'
  BY <1>11, KeptSlots DEF handleFileTransferEdge
<1>12. ASSUME NEW c \in Conn, Connect(c) PROVE Slots'
  BY <1>12, KeptSlots DEF Connect
<1>13. ASSUME NEW c \in Conn, Disconnect(c) PROVE Slots'
  <2>1. c \in Node
    BY DEF Node
  <2>2. /\ \A t \in Id : phase'[c][t] \notin Live
        /\ outgoing'[c] = NoReader /\ incoming'[c] = NoWriter
    BY <1>13, <2>1 DEF Disconnect, SessionType, Live
  <2>3. \A t \in Id : NoWriter.id # t
    BY DEF NoWriter, Id
  <2>4. Slot(c)'
    BY <2>2, <2>3 DEF Slot, Sessions, Live
  <2> SUFFICES ASSUME NEW m \in Node PROVE Slot(m)'
    BY DEF Slots
  <2>5. CASE m # c
    <3>1. /\ phase'[m] = phase[m] /\ outgoing'[m] = outgoing[m]
          /\ incoming'[m] = incoming[m]
          /\ m \in sendScheduled => m \in sendScheduled'
      BY <1>13, <2>5 DEF Disconnect, SessionType
    <3> QED  BY <3>1, SlotKept DEF Slots
  <2> QED  BY <2>4, <2>5
<1>14. ASSUME NEW n \in Node, Expire(n) PROVE Slots'
  BY <1>14, KeptSlots DEF Expire
<1>15. ASSUME UNCHANGED vars PROVE Slots'
  BY <1>15, KeptSlots DEF vars, sessionVars
<1> QED  BY <1>1, <1>2, <1>3, <1>4, <1>5, <1>6, <1>7, <1>8, <1>9, <1>10,
             <1>11, <1>12, <1>13, <1>14, <1>15 DEF Next, Rests

LEMMA InitSlots == Init => Slots
BY DEF Init, Slots, Slot, Sessions, Live, NoWriter, NoReader, Id

\* However a transfer ends, at the end that fails or at the other one, no
\* session, reader or writer of it is left, and no second one was begun.
THEOREM ResourcesAreSessions == Spec => []ResourcesMatchSessions
BY InitSlots, SlotsStep, FullTypeInvariant, SlotsSuffice, PTL DEF Spec

-----------------------------------------------------------------------------
(* Edge requests.  An answer says what the server found behind the edge for *)
(* the request it names, because a request is under way once and is gone    *)
(* when it is answered.  A queue q asks r if it holds that request, and     *)
(* tells r, n if it holds the answer n to it.                               *)

Asks(q, r) == \E i \in 1 .. Len(q) : q[i].type = "request" /\ q[i].request = r
AsksOnce(q) ==
  \A i, j \in 1 .. Len(q) :
    q[i].type = "request" /\ q[j].type = "request" /\ q[i].request = q[j].request
      => i = j
Tells(q, r, n) ==
  \E i \in 1 .. Len(q) :
    q[i].type = "response" /\ q[i].request = r /\ q[i].target = n

\* Request r, which was made, is no longer under way and was answered with n.
Asked(r) == \E c \in Conn : Asks(upstream[c], r)
Settled(r, n) == r \in 1 .. requests /\ ~Asked(r) /\ answer[r] = n

AnswersInv ==
  /\ \A c \in Conn : AsksOnce(upstream[c]) /\ \A r, n : ~Tells(upstream[c], r, n)
  /\ \A c, d \in Conn, r \in Nat : Asks(upstream[c], r) /\ Asks(upstream[d], r) => c = d
  /\ \A r \in Nat : Asked(r) => r \in 1 .. requests
  /\ \A n \in Node : \A r, to : Tells(inbox[n], r, to) => Settled(r, to)
  /\ \A t \in 1 .. drawn :
       route[t].source # Primary => Settled(route[t].request, route[t].target)

\* What a queue may become without a request or a response being added.
AsksNoMore(q, p) ==
  /\ \A r : Asks(p, r) => Asks(q, r)
  /\ AsksOnce(q) => AsksOnce(p)
TellsNoMore(q, p) == \A r, n : Tells(p, r, n) => Tells(q, r, n)
IsPlain(ms) == \A i \in 1 .. Len(ms) : ms[i].type \notin {"request", "response"}

LEMMA RestOfMail ==
  ASSUME NEW q \in Seq(Message), q # << >>
  PROVE  /\ AsksNoMore(q, Tail(q)) /\ TellsNoMore(q, Tail(q))
         /\ Head(q).type = "request" =>
              Asks(q, Head(q).request)
                /\ (AsksOnce(q) => ~Asks(Tail(q), Head(q).request))
         /\ Head(q).type = "response" => Tells(q, Head(q).request, Head(q).target)
<1> DEFINE p == Tail(q)
<1>1. /\ Len(q) \in Nat \ {0} /\ Len(p) = Len(q) - 1 /\ Head(q) = q[1]
      /\ \A i \in 1 .. Len(p) : p[i] = q[i + 1]
  OBVIOUS
<1> HIDE DEF p
<1>2. 1 \in 1 .. Len(q)
      /\ \A i \in 1 .. Len(p) : i + 1 \in 1 .. Len(q) /\ i + 1 # 1
  BY <1>1
<1>3. \A r : Asks(p, r) => Asks(q, r)
  BY <1>1, <1>2 DEF Asks
<1>4. TellsNoMore(q, p)
  BY <1>1, <1>2 DEF Tells, TellsNoMore
<1>5. ASSUME AsksOnce(q) PROVE AsksOnce(p)
  <2> SUFFICES ASSUME NEW i \in 1 .. Len(p), NEW j \in 1 .. Len(p),
                      p[i].type = "request", p[j].type = "request",
                      p[i].request = p[j].request
               PROVE  i = j
    BY DEF AsksOnce
  <2>1. i + 1 = j + 1
    BY <1>1, <1>2, <1>5 DEF AsksOnce
  <2>2. i \in Nat /\ j \in Nat
    BY <1>1
  <2> QED  BY <2>1, <2>2
<1>6. ASSUME Head(q).type = "request", AsksOnce(q), Asks(p, Head(q).request) PROVE FALSE
  <2>1. PICK i \in 1 .. Len(p) : p[i].type = "request" /\ p[i].request = Head(q).request
    BY <1>6 DEF Asks
  <2>2. i + 1 = 1
    BY <1>1, <1>2, <1>6, <2>1 DEF AsksOnce
  <2> QED  BY <1>2, <2>2
<1>7. Head(q).type = "request" => Asks(q, Head(q).request)
  BY <1>1, <1>2 DEF Asks
<1>8. Head(q).type = "response" => Tells(q, Head(q).request, Head(q).target)
  BY <1>1, <1>2 DEF Tells
<1> QED  BY <1>3, <1>4, <1>5, <1>6, <1>7, <1>8 DEF AsksNoMore, p

LEMMA PlainMail ==
  ASSUME NEW q \in Seq(Message), NEW ms \in Seq(Message), IsPlain(ms)
  PROVE  AsksNoMore(q, q \o ms) /\ TellsNoMore(q, q \o ms)
<1> DEFINE p == q \o ms
<1>1. /\ Len(q) \in Nat /\ Len(ms) \in Nat /\ Len(p) = Len(q) + Len(ms)
      /\ \A i \in 1 .. Len(q) : p[i] = q[i]
      /\ \A i \in 1 .. Len(p) : i > Len(q) => p[i] = ms[i - Len(q)]
  OBVIOUS
<1> HIDE DEF p
<1>2. \A i \in 1 .. Len(p) :
        p[i].type \in {"request", "response"} => i \in 1 .. Len(q) /\ p[i] = q[i]
  <2> SUFFICES ASSUME NEW i \in 1 .. Len(p), p[i].type \in {"request", "response"}
               PROVE  i \in 1 .. Len(q) /\ p[i] = q[i]
    OBVIOUS
  <2>1. CASE i > Len(q)
    <3>1. i - Len(q) \in 1 .. Len(ms)
      BY <1>1, <2>1
    <3> QED  BY <1>1, <2>1, <3>1 DEF IsPlain
  <2>2. CASE ~(i > Len(q))
    BY <1>1, <2>2
  <2> QED  BY <2>1, <2>2
<1>3. \A r : Asks(p, r) => Asks(q, r)
  BY <1>2 DEF Asks
<1>4. AsksOnce(q) => AsksOnce(p)
  BY <1>2 DEF AsksOnce
<1>5. TellsNoMore(q, p)
  BY <1>2 DEF Tells, TellsNoMore
<1> QED  BY <1>3, <1>4, <1>5 DEF AsksNoMore, p

LEMMA MessageAdded ==
  ASSUME NEW q \in Seq(Message), NEW m \in Message
  PROVE  /\ \A r : Asks(Append(q, m), r) =>
                     Asks(q, r) \/ (m.type = "request" /\ m.request = r)
         /\ AsksOnce(q) /\ ~Asks(q, m.request) => AsksOnce(Append(q, m))
         /\ \A r, n : Tells(Append(q, m), r, n) =>
                \/ Tells(q, r, n)
                \/ m.type = "response" /\ m.request = r /\ m.target = n
<1> DEFINE p == Append(q, m)
<1>1. /\ Len(q) \in Nat /\ Len(p) = Len(q) + 1 /\ p[Len(q) + 1] = m
      /\ \A i \in 1 .. Len(q) : p[i] = q[i]
  OBVIOUS
<1> HIDE DEF p
<1>2. \A i \in 1 .. Len(p) : i \in 1 .. Len(q) \/ i = Len(q) + 1
  BY <1>1
<1>3. \A r : Asks(p, r) => Asks(q, r) \/ (m.type = "request" /\ m.request = r)
  BY <1>1, <1>2 DEF Asks
<1>4. AsksOnce(q) /\ ~Asks(q, m.request) => AsksOnce(p)
  BY <1>1, <1>2 DEF AsksOnce, Asks
<1>5. \A r, n : Tells(p, r, n) =>
        Tells(q, r, n) \/ (m.type = "response" /\ m.request = r /\ m.target = n)
  BY <1>1, <1>2 DEF Tells
<1> QED  BY <1>3, <1>4, <1>5 DEF p

\* The streams gain no request and no response.
PlainStep ==
  /\ \A c \in Conn :
       AsksNoMore(upstream[c], upstream'[c]) /\ TellsNoMore(upstream[c], upstream'[c])
  /\ \A n \in Node : TellsNoMore(inbox[n], inbox'[n])

LEMMA SameMail == \A q : AsksNoMore(q, q) /\ TellsNoMore(q, q)
BY DEF AsksNoMore, TellsNoMore

LEMMA PlainStepKeepsAnswers ==
  ASSUME AnswersInv, FullType, PlainStep, requests' = requests, answer' = answer,
         \A t \in 1 .. drawn' :
           \/ t \in 1 .. drawn /\ route'[t] = route[t]
           \/ route'[t].source # Primary => Settled(route'[t].request, route'[t].target)
  PROVE  AnswersInv'
<1>1. \A r : Asked(r)' => Asked(r)
  BY DEF Asked, PlainStep, AsksNoMore
<1>2. \A r, n : Settled(r, n) => Settled(r, n)'
  BY <1>1 DEF Settled
<1>3. (\A c \in Conn : AsksOnce(upstream[c]) /\ \A r, n : ~Tells(upstream[c], r, n))'
  BY DEF AnswersInv, PlainStep, AsksNoMore, TellsNoMore
<1>4. (\A c, d \in Conn, r \in Nat : Asks(upstream[c], r) /\ Asks(upstream[d], r) => c = d)'
  BY DEF AnswersInv, PlainStep, AsksNoMore
<1>5. (\A r \in Nat : Asked(r) => r \in 1 .. requests)'
  BY <1>1 DEF AnswersInv
<1>6. (\A n \in Node : \A r, to : Tells(inbox[n], r, to) => Settled(r, to))'
  BY <1>2 DEF AnswersInv, PlainStep, TellsNoMore
<1>7. (\A t \in 1 .. drawn :
         route[t].source # Primary => Settled(route[t].request, route[t].target))'
  BY <1>2 DEF AnswersInv
<1> QED  BY <1>3, <1>4, <1>5, <1>6, <1>7 DEF AnswersInv

\* in: what is in the inboxes after a message is taken, or not.
LEMMA PostsArePlain ==
  ASSUME FullType, NEW n \in Node, NEW to \in Node, NEW ms \in Seq(Message), IsPlain(ms),
         NEW in \in {inbox, Taken(n)}, inbox[n] # << >> \/ in = inbox,
         Posts(n, to, ms, in)
  PROVE  PlainStep
<1>1. /\ inbox \in [Node -> Seq(Message)] /\ upstream \in [Conn -> Seq(Message)]
  BY DEF FullType, NetType
<1>2. in \in [Node -> Seq(Message)] /\ \A p \in Node : TellsNoMore(inbox[p], in[p])
  <2>1. CASE in = inbox
    BY <1>1, <2>1, SameMail
  <2>2. CASE in = Taken(n) /\ inbox[n] # << >>
    <3>1. inbox[n] \in Seq(Message) /\ Tail(inbox[n]) \in Seq(Message)
      BY <1>1, <2>2
    <3>2. in = [inbox EXCEPT ![n] = Tail(inbox[n])]
      BY <2>2 DEF Taken
    <3>3. TellsNoMore(inbox[n], Tail(inbox[n]))
      BY <2>2, <3>1, RestOfMail
    <3> QED  BY <1>1, <3>1, <3>2, <3>3, SameMail
  <2> QED  BY <2>1, <2>2
<1>3. CASE n # Primary
  <2>1. n \in Conn /\ upstream[n] \in Seq(Message)
    BY <1>1, <1>3 DEF Node
  <2>2. upstream' = [upstream EXCEPT ![n] = upstream[n] \o ms] /\ inbox' = in
    BY <1>3 DEF Posts
  <2>3. AsksNoMore(upstream[n], upstream[n] \o ms) /\ TellsNoMore(upstream[n], upstream[n] \o ms)
    BY <2>1, PlainMail
  <2> QED  BY <1>1, <1>2, <2>1, <2>2, <2>3, SameMail DEF PlainStep
<1>4. CASE n = Primary
  <2>1. in[to] \in Seq(Message)
    BY <1>2
  <2>2. TellsNoMore(in[to], in[to] \o ms)
    BY <2>1, PlainMail
  <2>3. TellsNoMore(inbox[to], in[to] \o ms)
    BY <1>2, <2>2 DEF TellsNoMore
  <2>4. \/ inbox' = [in EXCEPT ![to] = in[to] \o ms]
        \/ inbox' = in
    BY <1>4 DEF Posts
  <2>5. upstream' = upstream
    BY <1>4 DEF Posts
  <2>6. \A p \in Node : TellsNoMore(inbox[p], inbox'[p])
    BY <1>2, <2>3, <2>4
  <2> QED  BY <2>5, <2>6, SameMail DEF PlainStep
<1> QED  BY <1>3, <1>4

LEMMA PlainControls ==
  /\ IsPlain(<< >>)
  /\ \A t, y : y \notin {"request", "response"} => IsPlain(<<Control(y, t)>>)
  /\ \A t : IsPlain(<<Begin(t)>>)
  /\ \A o : IsPlain(Pieces(o))
  /\ \A ms \in Seq(Message) : \A t : IsPlain(ms) => IsPlain(Append(ms, Control("failed", t)))
<1>1. IsPlain(<< >>)
  BY DEF IsPlain
<1>2. ASSUME NEW t, NEW y, y \notin {"request", "response"} PROVE IsPlain(<<Control(y, t)>>)
  BY <1>2 DEF IsPlain, Control
<1>3. ASSUME NEW t PROVE IsPlain(<<Begin(t)>>)
  BY DEF IsPlain, Begin
<1>4. ASSUME NEW o PROVE IsPlain(Pieces(o))
  <2>1. CASE o.chunk < Chunks /\ LastOfItem(o) /\ LastItem(o)
    BY <2>1 DEF IsPlain, Pieces, Chunk, ItemEnd, Finish
  <2>2. CASE o.chunk < Chunks /\ LastOfItem(o) /\ ~LastItem(o)
    BY <2>2 DEF IsPlain, Pieces, Chunk, ItemEnd, Finish
  <2>3. CASE o.chunk < Chunks /\ ~LastOfItem(o)
    BY <2>3 DEF IsPlain, Pieces, Chunk, ItemEnd, Finish
  <2>4. CASE ~(o.chunk < Chunks) /\ LastOfItem(o) /\ LastItem(o)
    BY <2>4 DEF IsPlain, Pieces, Chunk, ItemEnd, Finish
  <2>5. CASE ~(o.chunk < Chunks) /\ LastOfItem(o) /\ ~LastItem(o)
    BY <2>5 DEF IsPlain, Pieces, Chunk, ItemEnd, Finish
  <2>6. CASE ~(o.chunk < Chunks) /\ ~LastOfItem(o)
    BY <2>6 DEF IsPlain, Pieces, Chunk, ItemEnd, Finish
  <2> QED  BY <2>1, <2>2, <2>3, <2>4, <2>5, <2>6
<1>5. ASSUME NEW ms \in Seq(Message), NEW t, IsPlain(ms)
      PROVE  IsPlain(Append(ms, Control("failed", t)))
  <2> DEFINE m == Control("failed", t)
             p == Append(ms, m)
  <2>1. m.type = "failed"
    BY DEF Control
  <2> HIDE DEF m
  <2>2. /\ Len(ms) \in Nat /\ Len(p) = Len(ms) + 1 /\ p[Len(ms) + 1] = m
        /\ \A i \in 1 .. Len(ms) : p[i] = ms[i]
    OBVIOUS
  <2> HIDE DEF p
  <2>3. \A i \in 1 .. Len(p) : i \in 1 .. Len(ms) \/ i = Len(ms) + 1
    BY <2>2
  <2>4. IsPlain(p)
    BY <1>5, <2>1, <2>2, <2>3 DEF IsPlain
  <2> QED  BY <2>4 DEF p, m
<1> QED  BY <1>1, <1>2, <1>3, <1>4, <1>5

LEMMA FailIsPlain ==
  ASSUME FullType, NEW n \in Node, NEW t \in Id, NEW ms \in Seq(Message), IsPlain(ms),
         NEW in \in {inbox, Taken(n)}, inbox[n] # << >> \/ in = inbox,
         failSession(n, t, ms, in)
  PROVE  PlainStep
<1>1. OtherEnd(n, t) \in Node
  BY OtherEndType DEF FullType
<1>2. Append(ms, Control("failed", t)) \in Seq(Message)
  BY ControlIsMessage
<1>3. IsPlain(Append(ms, Control("failed", t)))
  BY PlainControls
<1>4. \/ Posts(n, OtherEnd(n, t), Append(ms, Control("failed", t)), in)
      \/ Posts(n, OtherEnd(n, t), ms, in)
  BY DEF failSession
<1> QED  BY <1>1, <1>2, <1>3, <1>4, PostsArePlain

LEMMA TakingIsPlain ==
  ASSUME FullType, NEW n \in Node, inbox[n] # << >>, inbox' = Taken(n), upstream' = upstream
  PROVE  PlainStep
<1>1. inbox[n] \in Seq(Message) /\ inbox' = [inbox EXCEPT ![n] = Tail(inbox[n])]
      /\ inbox \in [Node -> Seq(Message)]
  BY DEF FullType, NetType, Taken
<1>2. TellsNoMore(inbox[n], Tail(inbox[n]))
  BY <1>1, RestOfMail
<1>3. \A p \in Node : TellsNoMore(inbox[p], inbox'[p])
  BY <1>1, <1>2, SameMail
<1> QED  BY <1>3, SameMail DEF PlainStep

LEMMA DropOnPrimaryKeepsAnswers ==
  ASSUME AnswersInv, FullType, NEW c \in Conn, DropOnPrimary(c)
  PROVE  AnswersInv'
<1> DEFINE t == drawn + 1
<1>1. /\ Primary \in Node /\ c \in Node /\ t \in Id
      /\ drawn \in Nat /\ route \in [Id -> Route]
  BY BoundAssumption DEF Node, Id, FullType, IdType, DropOnPrimary, offerLocalFiles
<1>2. /\ drawn' = t /\ Posts(Primary, c, <<Control("offer", t)>>, inbox)
      /\ route' = [route EXCEPT ![t] = [source |-> Primary, target |-> c, request |-> 0]]
      /\ requests' = requests /\ answer' = answer
  BY DEF DropOnPrimary, offerLocalFiles, edgeVars
<1>3. <<Control("offer", t)>> \in Seq(Message)
  BY <1>1, ControlIsMessage
<1>4. PlainStep
  BY <1>1, <1>2, <1>3, PlainControls, PostsArePlain
<1>5. ASSUME NEW u \in 1 .. drawn'
      PROVE  \/ u \in 1 .. drawn /\ route'[u] = route[u]
             \/ route'[u].source # Primary => Settled(route'[u].request, route'[u].target)
  <2>1. u \in 1 .. drawn \/ u = t
    BY <1>1, <1>2
  <2>2. u \in 1 .. drawn => u # t /\ route'[u] = route[u]
    BY <1>1, <1>2 DEF Id, FullType, IdType
  <2>3. route'[t].source = Primary
    BY <1>1, <1>2
  <2> QED  BY <2>1, <2>2, <2>3
<1> QED  BY <1>2, <1>4, <1>5, PlainStepKeepsAnswers

LEMMA DropOnClientKeepsAnswers ==
  ASSUME AnswersInv, FullType, NEW c \in Conn, DropOnClient(c)
  PROVE  AnswersInv'
<1> DEFINE r == requests + 1
           m == Request(r)
<1>1. requests \in Nat /\ r \in 0 .. MaxRequests /\ upstream[c] \in Seq(Message)
      /\ upstream \in [Conn -> Seq(Message)]
  BY BoundAssumption DEF FullType, EdgeType, NetType, DropOnClient
<1>2. m \in Message /\ m.type = "request" /\ m.request = r
  BY <1>1 DEF Request, Message
<1>3. /\ requests' = r /\ answer' = answer /\ inbox' = inbox /\ drawn' = drawn /\ route' = route
      /\ upstream' = [upstream EXCEPT ![c] = Append(upstream[c], m)]
  BY DEF DropOnClient, idVars
<1>4. ~Asked(r) /\ \A n : ~Settled(r, n)
  BY <1>1 DEF AnswersInv, Settled
<1> HIDE DEF m, r
<1>5. \A d \in Conn : \A x : Asks(upstream'[d], x) => Asks(upstream[d], x) \/ (d = c /\ x = r)
  BY <1>1, <1>2, <1>3, MessageAdded
<1>6. \A d \in Conn : ~Asks(upstream[d], r)
  BY <1>4 DEF Asked
<1>7. AsksOnce(upstream'[c]) /\ \A x, n : ~Tells(upstream'[c], x, n)
  BY <1>1, <1>2, <1>3, <1>6, MessageAdded DEF AnswersInv
<1>8. \A x : Asked(x)' => Asked(x) \/ x = r
  BY <1>5 DEF Asked
<1>9. \A x, n : Settled(x, n) => Settled(x, n)'
  BY <1>1, <1>3, <1>4, <1>8 DEF Settled, r
<1>10. (\A d \in Conn : AsksOnce(upstream[d]) /\ \A x, n : ~Tells(upstream[d], x, n))'
  BY <1>1, <1>3, <1>7 DEF AnswersInv
<1>11. (\A d, e \in Conn, x \in Nat : Asks(upstream[d], x) /\ Asks(upstream[e], x) => d = e)'
  BY <1>5, <1>6 DEF AnswersInv
<1>12. (\A x \in Nat : Asked(x) => x \in 1 .. requests)'
  BY <1>1, <1>3, <1>8 DEF AnswersInv, r
<1>13. (\A n \in Node : \A x, to : Tells(inbox[n], x, to) => Settled(x, to))'
  BY <1>3, <1>9 DEF AnswersInv
<1>14. (\A t \in 1 .. drawn :
          route[t].source # Primary => Settled(route[t].request, route[t].target))'
  BY <1>3, <1>9 DEF AnswersInv
<1> QED  BY <1>10, <1>11, <1>12, <1>13, <1>14 DEF AnswersInv

LEMMA HandleEdgeMessageKeepsAnswers ==
  ASSUME AnswersInv, FullType, NEW n \in Node, handleEdgeMessage(n)
  PROVE  AnswersInv'
<1> DEFINE m == Head(inbox[n])
           t == drawn + 1
<1>1. inbox[n] # << >> /\ m.type = "response" /\ inbox[n] \in Seq(Message)
  BY DEF handleEdgeMessage, Receives, FullType, NetType
<1>2. m \in Message /\ m.target \in Node \union {NoScreen}
  BY <1>1, MessageFields
<1>3. Settled(m.request, m.target)
  BY <1>1, RestOfMail DEF AnswersInv
<1>4. requests' = requests /\ answer' = answer
  BY DEF handleEdgeMessage
<1>5. CASE /\ offerLocalFiles(n, m.target, pendingEdge[n], Taken(n)) /\ Answers(n, m)
           /\ m.target # NoScreen
  <2>1. /\ t \in Id /\ drawn \in Nat /\ route \in [Id -> Route]
    BY <1>5, BoundAssumption DEF Id, FullType, IdType, offerLocalFiles
  <2>2. /\ drawn' = t /\ Posts(n, m.target, <<Control("offer", t)>>, Taken(n))
        /\ route' = [route EXCEPT ![t] =
                       [source |-> n, target |-> m.target, request |-> m.request]]
    BY <1>5 DEF offerLocalFiles, Answers
  <2>3. <<Control("offer", t)>> \in Seq(Message)
    BY <2>1, ControlIsMessage
  <2>4. PlainStep
    <3>1. Taken(n) \in {inbox, Taken(n)} /\ m.target \in Node
      BY <1>2, <1>5
    <3> QED  BY <1>1, <2>2, <2>3, <3>1, PlainControls, PostsArePlain
  <2>5. ASSUME NEW u \in 1 .. drawn'
        PROVE  \/ u \in 1 .. drawn /\ route'[u] = route[u]
               \/ route'[u].source # Primary => Settled(route'[u].request, route'[u].target)
    <3>1. u \in 1 .. drawn \/ u = t
      BY <2>1, <2>2
    <3>2. u \in 1 .. drawn => u # t /\ route'[u] = route[u]
      BY <2>1, <2>2 DEF Id, FullType, IdType
    <3>3. route'[t].request = m.request /\ route'[t].target = m.target
      BY <2>1, <2>2
    <3> QED  BY <1>3, <3>1, <3>2, <3>3
  <2> QED  BY <1>4, <2>4, <2>5, PlainStepKeepsAnswers
<1>6. CASE Ignores(n) /\ UNCHANGED idVars
  BY <1>1, <1>4, <1>6, TakingIsPlain, PlainStepKeepsAnswers DEF Ignores, idVars
<1> QED  BY <1>5, <1>6 DEF handleEdgeMessage

LEMMA HandleFileTransferEdgeKeepsAnswers ==
  ASSUME AnswersInv, FullType, NEW c \in Conn, NEW n \in Node \union {NoScreen},
         handleFileTransferEdge(c, n)
  PROVE  AnswersInv'
<1>0. PICK r, m : r = Head(upstream[c]).request /\ m = Response(r, n)
  OBVIOUS
<1>1. /\ upstream \in [Conn -> Seq(Message)] /\ upstream[c] \in Seq(Message)
      /\ upstream[c] # << >> /\ Head(upstream[c]).type = "request"
      /\ c \in Node /\ inbox \in [Node -> Seq(Message)]
  BY DEF FullType, NetType, handleFileTransferEdge, Node
<1>2. Head(upstream[c]) \in Message /\ r \in 0 .. MaxRequests
  BY <1>0, <1>1, MessageFields
<1>3. m \in Message /\ m.type = "response" /\ m.request = r /\ m.target = n
  BY <1>0, <1>2 DEF Response, Message
<1>4. /\ inbox' = [inbox EXCEPT ![c] = Append(inbox[c], m)]
      /\ upstream' = [upstream EXCEPT ![c] = Tail(upstream[c])]
      /\ answer' = [answer EXCEPT ![r] = n]
      /\ requests' = requests /\ drawn' = drawn /\ route' = route
  BY <1>0 DEF handleFileTransferEdge, idVars
<1>5. /\ AsksNoMore(upstream[c], Tail(upstream[c])) /\ TellsNoMore(upstream[c], Tail(upstream[c]))
      /\ Asks(upstream[c], r) /\ ~Asks(Tail(upstream[c]), r)
  BY <1>0, <1>1, RestOfMail DEF AnswersInv
<1>6. r \in Nat /\ r \in 1 .. requests /\ r \in 1 .. MaxRequests
  <2>1. r \in Nat
    BY <1>2, BoundAssumption
  <2>2. Asked(r)
    BY <1>5 DEF Asked
  <2>3. requests \in 0 .. MaxRequests
    BY DEF FullType, EdgeType
  <2>4. r \in 1 .. requests
    BY <2>1, <2>2 DEF AnswersInv
  <2> QED  BY <2>1, <2>3, <2>4, BoundAssumption
<1>7. inbox[c] \in Seq(Message)
  BY <1>1
<1>8. \A d \in Conn :
       AsksNoMore(upstream[d], upstream'[d]) /\ TellsNoMore(upstream[d], upstream'[d])
  BY <1>1, <1>4, <1>5, SameMail
<1>9. ~Asked(r)' /\ \A x : Asked(x)' => Asked(x)
  <2>1. \A d \in Conn : d # c => ~Asks(upstream[d], r)
    BY <1>5, <1>6 DEF AnswersInv
  <2>2. \A d \in Conn : ~Asks(upstream'[d], r)
    BY <1>1, <1>4, <1>5, <2>1
  <2> QED  BY <1>8, <2>2 DEF Asked, AsksNoMore
<1>10. \A to : ~Settled(r, to)
  BY <1>5 DEF Settled, Asked
<1>11. answer \in [1 .. MaxRequests -> Node \union {NoScreen}]
  BY DEF FullType, EdgeType
<1>12. answer'[r] = n /\ \A x \in 1 .. MaxRequests : x # r => answer'[x] = answer[x]
  BY <1>4, <1>6, <1>11
<1>13. Settled(r, n)'
  BY <1>4, <1>6, <1>9, <1>12 DEF Settled
<1>14. \A x, to : Settled(x, to) => Settled(x, to)'
  <2> SUFFICES ASSUME NEW x, NEW to, Settled(x, to) PROVE Settled(x, to)'
    OBVIOUS
  <2>1. x # r /\ x \in 1 .. requests
    BY <1>10 DEF Settled
  <2>2. x \in 1 .. MaxRequests
    BY <2>1, BoundAssumption DEF FullType, EdgeType
  <2> QED  BY <1>4, <1>9, <1>12, <2>1, <2>2 DEF Settled
<1>15. (\A d \in Conn : AsksOnce(upstream[d]) /\ \A x, to : ~Tells(upstream[d], x, to))'
  BY <1>8 DEF AnswersInv, AsksNoMore, TellsNoMore
<1>16. (\A d, e \in Conn, x \in Nat : Asks(upstream[d], x) /\ Asks(upstream[e], x) => d = e)'
  BY <1>8 DEF AnswersInv, AsksNoMore
<1>17. (\A x \in Nat : Asked(x) => x \in 1 .. requests)'
  BY <1>4, <1>9 DEF AnswersInv
<1>18. \A p \in Node : \A x, to : Tells(inbox'[p], x, to) =>
         Tells(inbox[p], x, to) \/ (x = r /\ to = n)
  BY <1>1, <1>3, <1>4, <1>7, MessageAdded
<1>19. (\A p \in Node : \A x, to : Tells(inbox[p], x, to) => Settled(x, to))'
  BY <1>13, <1>14, <1>18 DEF AnswersInv
<1>20. (\A t \in 1 .. drawn :
          route[t].source # Primary => Settled(route[t].request, route[t].target))'
  BY <1>4, <1>14 DEF AnswersInv
<1> QED  BY <1>15, <1>16, <1>17, <1>19, <1>20 DEF AnswersInv

\* Handlers that neither ask nor answer.
LEMMA OtherHandlersArePlain ==
  ASSUME FullType,
         \/ \E n \in Node, w \in BOOLEAN : handleOffer(n, w) \/ handleData(n, w)
         \/ \E n \in Node, r \in BOOLEAN : handleDecision(n, r)
         \/ \E n \in Node, r, o \in BOOLEAN : processNextOutgoingChunk(n, r, o)
         \/ \E n \in Node : handleResult(n)
  PROVE  PlainStep
<1>1. ASSUME NEW n \in Node, NEW w \in BOOLEAN, handleOffer(n, w) PROVE PlainStep
  <2> DEFINE t == Head(inbox[n]).id
  <2>1. inbox[n] # << >> /\ Head(inbox[n]).type = "offer"
    BY <1>1 DEF handleOffer, Receives
  <2>2. t \in Id
    BY <2>1, TakenType, MessageFields DEF FullType
  <2>3. OtherEnd(n, t) \in Node
    BY <2>2, OtherEndType DEF FullType
  <2>4. <<Control("reject", t)>> \in Seq(Message) /\ <<Control("accept", t)>> \in Seq(Message)
    BY <2>2, ControlIsMessage
  <2>5. \/ inbox' = Taken(n) /\ upstream' = upstream
        \/ Posts(n, OtherEnd(n, t), <<Control("reject", t)>>, Taken(n))
        \/ Posts(n, OtherEnd(n, t), <<Control("accept", t)>>, Taken(n))
    BY <1>1 DEF handleOffer, Ignores
  <2> HIDE DEF t
  <2> QED  BY <2>1, <2>3, <2>4, <2>5, PlainControls, PostsArePlain, TakingIsPlain
<1>2. ASSUME NEW n \in Node, NEW w \in BOOLEAN, handleData(n, w) PROVE PlainStep
  <2> DEFINE t == Head(inbox[n]).id
  <2>1. /\ inbox[n] # << >>
        /\ Head(inbox[n]).type \in {"begin", "chunk", "itemEnd", "finish"}
    BY <1>2 DEF handleData, Receives
  <2>2. t \in Id
    BY <2>1, TakenType, MessageFields DEF FullType
  <2>3. OtherEnd(n, t) \in Node
    BY <2>2, OtherEndType DEF FullType
  <2>4. <<Control("completed", t)>> \in Seq(Message) /\ << >> \in Seq(Message)
    BY <2>2, ControlIsMessage
  <2>5. \/ inbox' = Taken(n) /\ upstream' = upstream
        \/ Posts(n, OtherEnd(n, t), <<Control("completed", t)>>, Taken(n))
        \/ failSession(n, t, << >>, Taken(n))
    BY <1>2 DEF handleData, Ignores
  <2> HIDE DEF t
  <2> QED  BY <2>1, <2>2, <2>3, <2>4, <2>5, PlainControls, PostsArePlain, TakingIsPlain, FailIsPlain
<1>3. ASSUME NEW n \in Node, NEW r \in BOOLEAN, handleDecision(n, r) PROVE PlainStep
  <2> DEFINE t == Head(inbox[n]).id
  <2>1. inbox[n] # << >> /\ Head(inbox[n]).type \in {"accept", "reject"}
    BY <1>3 DEF handleDecision, Receives
  <2>2. t \in Id
    BY <2>1, TakenType, MessageFields DEF FullType
  <2>3. OtherEnd(n, t) \in Node
    BY <2>2, OtherEndType DEF FullType
  <2>4. <<Begin(t)>> \in Seq(Message) /\ << >> \in Seq(Message)
    BY <2>2 DEF Begin, Message
  <2>5. \/ inbox' = Taken(n) /\ upstream' = upstream
        \/ Posts(n, OtherEnd(n, t), <<Begin(t)>>, Taken(n))
        \/ failSession(n, t, << >>, Taken(n))
    BY <1>3 DEF handleDecision, Ignores
  <2> HIDE DEF t
  <2> QED  BY <2>1, <2>2, <2>3, <2>4, <2>5, PlainControls, PostsArePlain, TakingIsPlain, FailIsPlain
<1>4. ASSUME NEW n \in Node, NEW r \in BOOLEAN, NEW o \in BOOLEAN,
             processNextOutgoingChunk(n, r, o)
      PROVE  PlainStep
  <2>1. CASE outgoing[n] = NoReader
    BY <1>4, <2>1, SameMail DEF processNextOutgoingChunk, netVars, PlainStep
  <2>2. CASE outgoing[n] # NoReader
    <3> DEFINE q == outgoing[n]
    <3>1. q \in Reader /\ q.id \in Id
      BY <2>2 DEF FullType, SessionType, Reader
    <3>2. Pieces(q) \in Seq(Message) /\ << >> \in Seq(Message)
      BY <3>1, PiecesAreMessages
    <3>3. OtherEnd(n, q.id) \in Node
      BY <3>1, OtherEndType DEF FullType
    <3>4. \/ failSession(n, q.id, << >>, inbox)
          \/ failSession(n, q.id, Pieces(q), inbox)
          \/ Posts(n, OtherEnd(n, q.id), Pieces(q), inbox)
      BY <1>4, <2>2 DEF processNextOutgoingChunk
    <3>5. inbox \in {inbox, Taken(n)}
      OBVIOUS
    <3> HIDE DEF q
    <3> QED  BY <3>1, <3>2, <3>3, <3>4, <3>5, PlainControls, PostsArePlain, FailIsPlain
  <2> QED  BY <2>1, <2>2
<1>5. ASSUME NEW n \in Node, handleResult(n) PROVE PlainStep
  BY <1>5, TakingIsPlain DEF handleResult, Ignores, Receives
<1> QED  BY <1>1, <1>2, <1>3, <1>4, <1>5

LEMMA RoutingIsPlain ==
  ASSUME FullType, AnswersInv, NEW c \in Conn, routeFileTransfer(c)
  PROVE  PlainStep
<1> DEFINE q == upstream[c]
           to == OtherEnd(c, Head(q).id)
<1>1. /\ upstream \in [Conn -> Seq(Message)] /\ inbox \in [Node -> Seq(Message)]
      /\ q \in Seq(Message) /\ q # << >> /\ Head(q).type # "request"
      /\ upstream' = [upstream EXCEPT ![c] = Tail(q)]
  BY DEF FullType, NetType, routeFileTransfer
<1>2. Head(q) \in Message /\ Head(q).type # "response"
  BY <1>1, RestOfMail DEF AnswersInv
<1>3. \/ inbox' = inbox
      \/ inbox' = [inbox EXCEPT ![to] = Append(@, Head(q))] /\ to \in Node
  BY DEF routeFileTransfer, Running, FullType, PeerType, Node
<1>4. AsksNoMore(q, Tail(q)) /\ TellsNoMore(q, Tail(q))
  BY <1>1, RestOfMail
<1> HIDE DEF to
<1>5. to \in Node => TellsNoMore(inbox[to], Append(inbox[to], Head(q)))
  BY <1>1, <1>2, MessageAdded DEF TellsNoMore
<1>6. \A n \in Node : TellsNoMore(inbox[n], inbox'[n])
  BY <1>1, <1>3, <1>5, SameMail
<1>7. \A d \in Conn :
       AsksNoMore(upstream[d], upstream'[d]) /\ TellsNoMore(upstream[d], upstream'[d])
  BY <1>1, <1>4, SameMail
<1> QED  BY <1>6, <1>7 DEF PlainStep

LEMMA DisconnectIsPlain ==
  ASSUME FullType, NEW c \in Conn, Disconnect(c)
  PROVE  PlainStep
<1>1. /\ upstream' = [upstream EXCEPT ![c] = << >>] /\ inbox' = [inbox EXCEPT ![c] = << >>]
      /\ upstream \in [Conn -> Seq(Message)] /\ inbox \in [Node -> Seq(Message)]
  BY DEF Disconnect, FullType, NetType
<1>2. \A q : AsksNoMore(q, << >>) /\ TellsNoMore(q, << >>)
  BY DEF AsksNoMore, TellsNoMore, Asks, AsksOnce, Tells
<1> QED  BY <1>1, <1>2, SameMail DEF PlainStep

LEMMA InitAnswers == Init => AnswersInv
<1> SUFFICES ASSUME Init PROVE AnswersInv
  OBVIOUS
<1>1. (\A c \in Conn : upstream[c] = << >>) /\ (\A n \in Node : inbox[n] = << >>) /\ drawn = 0
  BY DEF Init
<1>2. AsksOnce(<< >>) /\ (\A r : ~Asks(<< >>, r)) /\ (\A r, n : ~Tells(<< >>, r, n))
  BY DEF AsksOnce, Asks, Tells
<1> QED  BY <1>1, <1>2 DEF AnswersInv, Asked

LEMMA AnswersStep == FullType /\ AnswersInv /\ [Next]_vars => AnswersInv'
<1> SUFFICES ASSUME FullType, AnswersInv, [Next]_vars PROVE AnswersInv'
  OBVIOUS
<1>1. ASSUME NEW c \in Conn, DropOnPrimary(c) PROVE AnswersInv'
  BY <1>1, DropOnPrimaryKeepsAnswers
<1>2. ASSUME NEW c \in Conn, DropOnClient(c) PROVE AnswersInv'
  BY <1>2, DropOnClientKeepsAnswers
<1>3. ASSUME NEW c \in Conn, expirePendingEdgeRequest(c) PROVE AnswersInv'
  BY <1>3, SameMail, PlainStepKeepsAnswers
  DEF expirePendingEdgeRequest, netVars, idVars, PlainStep
<1>4. ASSUME NEW n \in Node, handleEdgeMessage(n) PROVE AnswersInv'
  BY <1>4, HandleEdgeMessageKeepsAnswers
<1>5. ASSUME NEW n \in Node, NEW w \in BOOLEAN, handleOffer(n, w) PROVE AnswersInv'
  BY <1>5, OtherHandlersArePlain, PlainStepKeepsAnswers DEF handleOffer, edgeVars, idVars
<1>6. ASSUME NEW n \in Node, NEW r \in BOOLEAN, handleDecision(n, r) PROVE AnswersInv'
  BY <1>6, OtherHandlersArePlain, PlainStepKeepsAnswers DEF handleDecision, edgeVars, idVars
<1>7. ASSUME NEW n \in Node, NEW r \in BOOLEAN, NEW o \in BOOLEAN,
             processNextOutgoingChunk(n, r, o)
      PROVE  AnswersInv'
  BY <1>7, OtherHandlersArePlain, PlainStepKeepsAnswers
  DEF processNextOutgoingChunk, edgeVars, idVars
<1>8. ASSUME NEW n \in Node, NEW w \in BOOLEAN, handleData(n, w) PROVE AnswersInv'
  BY <1>8, OtherHandlersArePlain, PlainStepKeepsAnswers DEF handleData, edgeVars, idVars
<1>9. ASSUME NEW n \in Node, handleResult(n) PROVE AnswersInv'
  BY <1>9, OtherHandlersArePlain, PlainStepKeepsAnswers DEF handleResult, edgeVars, idVars
<1>10. ASSUME NEW c \in Conn, routeFileTransfer(c) PROVE AnswersInv'
  BY <1>10, RoutingIsPlain, PlainStepKeepsAnswers DEF routeFileTransfer, edgeVars, idVars
<1>11. ASSUME NEW c \in Conn, NEW n \in Node \union {NoScreen}, handleFileTransferEdge(c, n)
       PROVE  AnswersInv'
  BY <1>11, HandleFileTransferEdgeKeepsAnswers
<1>12. ASSUME NEW c \in Conn, Connect(c) PROVE AnswersInv'
  BY <1>12, SameMail, PlainStepKeepsAnswers
  DEF Connect, netVars, idVars, edgeVars, PlainStep
<1>13. ASSUME NEW c \in Conn, Disconnect(c) PROVE AnswersInv'
  BY <1>13, DisconnectIsPlain, PlainStepKeepsAnswers DEF Disconnect, idVars
<1>14. ASSUME NEW n \in Node, Expire(n) PROVE AnswersInv'
  BY <1>14, SameMail, PlainStepKeepsAnswers
  DEF Expire, netVars, idVars, edgeVars, PlainStep
<1>15. ASSUME UNCHANGED vars PROVE AnswersInv'
  BY <1>15, SameMail, PlainStepKeepsAnswers DEF vars, PlainStep
<1> QED  BY <1>1, <1>2, <1>3, <1>4, <1>5, <1>6, <1>7, <1>8, <1>9, <1>10, <1>11, <1>12,
            <1>13, <1>14, <1>15 DEF Next, Rests

LEMMA AnswersSuffice == AnswersInv => FilesGoWhereDropped
BY DEF AnswersInv, FilesGoWhereDropped, Settled

\* Whatever requests are made, expire and are made again, and whichever answers
\* come late, files are offered to the screen the server named for their own
\* drop (FileTransferService::handleEdgeMessage, expirePendingEdgeRequest).
THEOREM FilesAlwaysGoWhereDropped == Spec => []FilesGoWhereDropped
BY InitAnswers, AnswersStep, FullTypeInvariant, AnswersSuffice, PTL DEF Spec
=============================================================================
