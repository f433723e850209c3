---------------------------- MODULE FileTransfer ----------------------------
(***************************************************************************)
(* Files dropped on a screen edge are copied to the screen behind it       *)
(* (lib/deskflow/FileTransferService.cpp, FileTransferSessionState.cpp,    *)
(* the routing in lib/server/Server.cpp and the writers of lib/platform).  *)
(*                                                                         *)
(* Each computer runs one FileTransferService on its event loop, with room *)
(* for one session.  The primary's lives as long as the server runs; a     *)
(* client's as long as its connection.  Clients reach each other through   *)
(* the server, which routes by the names a message holds and drops what it *)
(* cannot deliver.                                                         *)
(*                                                                         *)
(* Abstracted: names, sizes and digests (a file is a number of chunks, and *)
(* all offers are alike), frame encoding, protocol versions older than the *)
(* feature, which screen lies behind an edge (any other one), and the two  *)
(* ends of a connection noticing its loss at different times.  Nothing in  *)
(* the program sends a cancel message, so none is modelled.                *)
(***************************************************************************)
EXTENDS Naturals, Sequences, FiniteSets

CONSTANTS
  Conn,          \* clients
  Primary,       \* the server's own computer
  NoScreen,      \* no target behind the edge
  Senders,       \* computers where files are dropped on an edge
  Receivers,     \* computers with receiveEnabled and a directory
  Items,         \* files of an offer
  Chunks,        \* chunks of a file; an empty file has none
  Faults,        \* files and directories may fail
  Expiry,        \* the licence of a computer may end
  Drops,         \* connections may be lost
  MaxTransfers,  \* bound: transfer ids drawn
  MaxRequests,   \* bound: edge requests made
  MaxConnects    \* bound: connections of one client

ASSUME PrimaryIsNoClient == Primary \notin Conn
ASSUME UseAssumption ==
  /\ Senders \subseteq Conn \union {Primary}
  /\ Receivers \subseteq Conn \union {Primary}
  /\ NoScreen \notin Conn \union {Primary}
  /\ Faults \in BOOLEAN /\ Expiry \in BOOLEAN /\ Drops \in BOOLEAN
ASSUME SizeAssumption == Items \in Nat \ {0} /\ Chunks \in Nat
ASSUME BoundAssumption ==
  MaxTransfers \in Nat /\ MaxRequests \in Nat /\ MaxConnects \in Nat

Node == Conn \union {Primary}
Id == 1 .. MaxTransfers
Live == {"awaitingDecision", "awaitingData", "sending", "receiving"}
Ended == {"rejected", "completed", "failed"}
Phase == {"none", "gone"} \union Live \union Ended

VARIABLES
  connected,     \* clients the server serves
  connects,      \* connections each client has had
  entitled,      \* computers whose licence allows file transfer
  drawn,         \* transfer ids in use: 1 .. drawn
  route,         \* source and target of an offer, in each of its messages
  phase,         \* sessions; the phase a session ended with is remembered
  outgoing,      \* Impl::outgoing: the file and chunk to read next
  incoming,      \* Impl::incoming: the writers
  sendScheduled, \* computers with a FileTransferSendNextChunk event queued
  requests,      \* edge requests made
  pendingEdge,   \* Impl::pendingEdge, 0 if there is none
  answer,        \* what the server answered to each request, for a property
  upstream,      \* messages from a client to the server
  inbox          \* messages to a computer's service

peerVars == <<connected, connects>>
edgeVars == <<requests, pendingEdge, answer>>
idVars == <<drawn, route>>
sessionVars == <<phase, outgoing, incoming>>
netVars == <<upstream, inbox>>
vars == <<connected, connects, entitled, drawn, route, phase, outgoing,
          incoming, sendScheduled, requests, pendingEdge, answer, upstream,
          inbox>>

Reader == [id : Id, item : 0 .. Items - 1, chunk : 0 .. Chunks]
Writer == [id : Id, state : {"awaitingBegin", "receiving", "readyToFinish"},
           item : 0 .. Items, chunk : 0 .. Chunks]
NoReader == [id |-> 0]
NoWriter == [id |-> 0]

Init ==
  /\ connected = {} /\ connects = [c \in Conn |-> 0]
  /\ entitled = Node
  /\ drawn = 0
  /\ route = [t \in Id |-> [source |-> Primary, target |-> Primary,
                               request |-> 0]]
  /\ phase = [n \in Node |-> [t \in Id |-> "none"]]
  /\ outgoing = [n \in Node |-> NoReader]
  /\ incoming = [n \in Node |-> NoWriter]
  /\ sendScheduled = {}
  /\ requests = 0 /\ pendingEdge = [n \in Node |-> 0]
  /\ answer = [r \in 1 .. MaxRequests |-> NoScreen]
  /\ upstream = [c \in Conn |-> << >>]
  /\ inbox = [n \in Node |-> << >>]

\* What FileTransferSessionRegistry holds.
Sessions(n) == {t \in Id : phase[n][t] \in Live}
Running == connected \union {Primary}

Control(type, t) == [type |-> type, id |-> t]
Begin(t) == [type |-> "begin", id |-> t]
Chunk(t, i, k) == [type |-> "chunk", id |-> t, item |-> i, chunk |-> k]
ItemEnd(t, i) == [type |-> "itemEnd", id |-> t, item |-> i]
Finish(t) == [type |-> "finish", id |-> t]
Request(r) == [type |-> "request", request |-> r]
Response(r, n) == [type |-> "response", request |-> r, target |-> n]

-----------------------------------------------------------------------------
(* Sending.  A client writes to its stream.  The primary's messages are    *)
(* routed at once, and sending fails if the other end is not connected.    *)

OtherEnd(n, t) == IF route[t].source = n THEN route[t].target
                  ELSE route[t].source
Reaches(n, to) == n # Primary \/ to \in connected

\* Computer n sends ms to the other one; in is what is now in the inboxes.
Posts(n, to, ms, in) ==
  IF n # Primary
  THEN upstream' = [upstream EXCEPT ![n] = @ \o ms] /\ inbox' = in
  ELSE /\ inbox' = IF Reaches(n, to) THEN [in EXCEPT ![to] = @ \o ms] ELSE in
       /\ UNCHANGED upstream

\* The service is done with its session for t.
Closes(n, t, how) ==
  /\ phase' = [phase EXCEPT ![n][t] = how]
  /\ outgoing' = [outgoing EXCEPT ![n] = IF @.id = t THEN NoReader ELSE @]
  /\ incoming' = [incoming EXCEPT ![n] = IF @.id = t THEN NoWriter ELSE @]

\* mutants: the other end is not told; the session alone is ended
FailsSilently(n, t, ms, in) ==
  IF t \in Sessions(n)
  THEN Posts(n, OtherEnd(n, t), ms, in) /\ Closes(n, t, "failed")
  ELSE Posts(n, OtherEnd(n, t), ms, in) /\ UNCHANGED sessionVars
KeepsWriter(n, t, ms, in) ==
  IF t \in Sessions(n)
  THEN /\ Posts(n, OtherEnd(n, t), Append(ms, Control("failed", t)), in)
       /\ phase' = [phase EXCEPT ![n][t] = "failed"]
       /\ UNCHANGED <<outgoing, incoming>>
  ELSE Posts(n, OtherEnd(n, t), ms, in) /\ UNCHANGED sessionVars
\* failSession with notifyPeer, after ms was sent.
failSession(n, t, ms, in) ==
  IF t \in Sessions(n)
  THEN Posts(n, OtherEnd(n, t), Append(ms, Control("failed", t)), in)
       /\ Closes(n, t, "failed")
  ELSE Posts(n, OtherEnd(n, t), ms, in) /\ UNCHANGED sessionVars

Receives(n, types) == inbox[n] # << >> /\ Head(inbox[n]).type \in types
Taken(n) == [inbox EXCEPT ![n] = Tail(@)]
Ignores(n) == inbox' = Taken(n) /\ UNCHANGED <<sessionVars, upstream>>

-----------------------------------------------------------------------------
(* Offers.                                                                 *)

Idle(n) == Sessions(n) = {}

\* offerLocalFiles, for a service that has checked that it may; the target is
\* one the server has named.
offerLocalFiles(n, target, request, in) ==
  LET t == drawn + 1
  IN /\ drawn < MaxTransfers
     /\ drawn' = t
     /\ route' = [route EXCEPT ![t] = [source |-> n, target |-> target,
                                       request |-> request]]
     /\ phase' = [phase EXCEPT ![n][t] = "awaitingDecision"]
     /\ Posts(n, target, <<Control("offer", t)>>, in)
     /\ UNCHANGED <<outgoing, incoming>>

\* beginEdgeDrop: the primary knows what lies behind the edge, a client asks.
DropOnPrimary(target) ==
  /\ Primary \in Senders \intersect entitled /\ Idle(Primary)
  /\ target \in connected
  /\ offerLocalFiles(Primary, target, 0, inbox)
  /\ UNCHANGED <<peerVars, entitled, sendScheduled, edgeVars>>

DropOnClient(c) ==
  /\ c \in connected \intersect Senders \intersect entitled /\ Idle(c)
  /\ pendingEdge[c] = 0 /\ requests < MaxRequests
  /\ requests' = requests + 1
  /\ pendingEdge' = [pendingEdge EXCEPT ![c] = requests + 1]
  /\ upstream' = [upstream EXCEPT ![c] = Append(@, Request(requests + 1))]
  /\ UNCHANGED <<peerVars, entitled, idVars, sessionVars, sendScheduled, answer,
                 inbox>>

\* The request's five seconds are over.
expirePendingEdgeRequest(c) ==
  /\ pendingEdge[c] # 0
  /\ pendingEdge' = [pendingEdge EXCEPT ![c] = 0]
  /\ UNCHANGED <<peerVars, entitled, idVars, sessionVars, sendScheduled,
                 requests, answer, netVars>>

\* mutant: any response will do
AnyResponse(n, m) == pendingEdge[n] # 0
Answers(n, m) == pendingEdge[n] # 0 /\ m.request = pendingEdge[n]

\* A response that is late answers no pending request.
handleEdgeMessage(n) ==
  /\ Receives(n, {"response"})
  /\ LET m == Head(inbox[n])
     IN IF ~Answers(n, m)
        THEN Ignores(n) /\ UNCHANGED <<pendingEdge, idVars>>
        ELSE /\ pendingEdge' = [pendingEdge EXCEPT ![n] = 0]
             /\ IF n \in entitled /\ m.target # NoScreen /\ Idle(n)
                THEN offerLocalFiles(n, m.target, pendingEdge[n], Taken(n))
                ELSE Ignores(n) /\ UNCHANGED idVars
  /\ UNCHANGED <<peerVars, entitled, sendScheduled, requests, answer>>

\* A busy or unlicensed service does not answer; one that cannot receive, or
\* (writes is FALSE) cannot write to its directory, rejects.
handleOffer(n, writes) ==
  /\ Receives(n, {"offer"})
  /\ LET t == Head(inbox[n]).id
     IN IF n \notin entitled \/ ~Idle(n)
        THEN Ignores(n)
        ELSE IF n \notin Receivers \/ ~writes
        THEN /\ phase' = [phase EXCEPT ![n][t] = "rejected"]
             /\ Posts(n, OtherEnd(n, t), <<Control("reject", t)>>, Taken(n))
             /\ UNCHANGED <<outgoing, incoming>>
        ELSE IF Reaches(n, OtherEnd(n, t))
        THEN /\ phase' = [phase EXCEPT ![n][t] = "awaitingData"]
             /\ incoming' = [incoming EXCEPT
                  ![n] = [id |-> t, state |-> "awaitingBegin", item |-> 0,
                          chunk |-> 0]]
             /\ Posts(n, OtherEnd(n, t), <<Control("accept", t)>>, Taken(n))
             /\ UNCHANGED outgoing
        ELSE /\ phase' = [phase EXCEPT ![n][t] = "failed"]
             /\ inbox' = Taken(n) /\ UNCHANGED <<upstream, outgoing, incoming>>
  /\ writes \/ Faults
  /\ UNCHANGED <<peerVars, entitled, idVars, sendScheduled, edgeVars>>

-----------------------------------------------------------------------------
(* The source.                                                             *)

AwaitsDecision(n, t) == route[t].source = n /\ phase[n][t] = "awaitingDecision"

\* reads says whether the first file can still be opened.
handleDecision(n, reads) ==
  /\ Receives(n, {"accept", "reject"})
  /\ LET m == Head(inbox[n])
         t == m.id
     IN IF n \notin entitled
        THEN failSession(n, t, << >>, Taken(n)) /\ UNCHANGED sendScheduled
        ELSE IF ~AwaitsDecision(n, t)
        THEN Ignores(n) /\ UNCHANGED sendScheduled
        ELSE IF m.type = "reject"
        THEN /\ phase' = [phase EXCEPT ![n][t] = "rejected"]
             /\ inbox' = Taken(n)
             /\ UNCHANGED <<upstream, outgoing, incoming, sendScheduled>>
        ELSE IF ~reads \/ ~Reaches(n, OtherEnd(n, t))
        THEN failSession(n, t, << >>, Taken(n)) /\ UNCHANGED sendScheduled
        ELSE /\ phase' = [phase EXCEPT ![n][t] = "sending"]
             /\ outgoing' = [outgoing EXCEPT
                               ![n] = [id |-> t, item |-> 0, chunk |-> 0]]
             /\ Posts(n, OtherEnd(n, t), <<Begin(t)>>, Taken(n))
             /\ sendScheduled' = sendScheduled \union {n}
             /\ UNCHANGED incoming
  /\ reads \/ Faults
  /\ UNCHANGED <<peerVars, entitled, idVars, edgeVars>>

\* What reading the next piece of the file gives to send.
LastOfItem(o) == o.chunk + 1 >= Chunks
LastItem(o) == o.item + 1 = Items
\* mutant: the end of the offer is not sent
NoFinish(o) ==
  (IF o.chunk < Chunks THEN <<Chunk(o.id, o.item, o.chunk)>> ELSE << >>)
    \o (IF LastOfItem(o) THEN <<ItemEnd(o.id, o.item)>> ELSE << >>)
Pieces(o) ==
  (IF o.chunk < Chunks THEN <<Chunk(o.id, o.item, o.chunk)>> ELSE << >>)
    \o (IF LastOfItem(o) THEN <<ItemEnd(o.id, o.item)>> ELSE << >>)
    \o (IF LastOfItem(o) /\ LastItem(o) THEN <<Finish(o.id)>> ELSE << >>)

\* mutants: the next file is read from where the last one ended; the end of the
\* offer is not noticed
KeepsOffset(o) ==
  IF LastOfItem(o) /\ LastItem(o) THEN NoReader
  ELSE [o EXCEPT !.item = IF LastOfItem(o) THEN @ + 1 ELSE @,
                 !.chunk = @ + 1]
ReadsOn(o) ==
  IF ~LastOfItem(o) THEN [o EXCEPT !.chunk = @ + 1]
  ELSE [o EXCEPT !.item = @ + 1, !.chunk = 0]
Advance(o) ==
  IF ~LastOfItem(o) THEN [o EXCEPT !.chunk = @ + 1]
  ELSE IF LastItem(o) THEN NoReader
  ELSE [o EXCEPT !.item = @ + 1, !.chunk = 0]

\* mutant: what is sent is taken to have arrived
DoneOnceSent(o) == IF Advance(o) = NoReader THEN "completed" ELSE "sending"
\* Sending all of it does not end the session, the target's result does.
PhaseOnceSent(o) == "sending"

\* The queued event.  reads is FALSE if the file has changed or cannot be
\* read, opens if the next one cannot be opened.
processNextOutgoingChunk(n, reads, opens) ==
  LET o == outgoing[n]
  IN /\ n \in sendScheduled
     /\ IF o = NoReader
        THEN /\ sendScheduled' = sendScheduled \ {n}
             /\ UNCHANGED <<sessionVars, netVars>>
        ELSE IF n \notin entitled \/ ~reads \/ ~Reaches(n, OtherEnd(n, o.id))
        THEN /\ sendScheduled' = sendScheduled \ {n}
             /\ failSession(n, o.id, << >>, inbox)
        ELSE IF LastOfItem(o) /\ ~LastItem(o) /\ ~opens
        THEN /\ sendScheduled' = sendScheduled \ {n}
             /\ failSession(n, o.id, Pieces(o), inbox)
        ELSE /\ outgoing' = [outgoing EXCEPT ![n] = Advance(o)]
             /\ sendScheduled' = IF Advance(o) = NoReader
                                 THEN sendScheduled \ {n} ELSE sendScheduled
             /\ phase' = [phase EXCEPT ![n][o.id] = PhaseOnceSent(o)]
             /\ Posts(n, OtherEnd(n, o.id), Pieces(o), inbox)
             /\ UNCHANGED incoming
     /\ (reads /\ opens) \/ Faults
     /\ UNCHANGED <<peerVars, entitled, idVars, edgeVars>>

-----------------------------------------------------------------------------
(* The target.                                                             *)

\* The writer takes a message only in its turn.
Accepts(w, m) ==
  \/ m.type = "begin" /\ w.state = "awaitingBegin"
  \/ m.type = "chunk" /\ w.state = "receiving"
       /\ m.item = w.item /\ m.chunk = w.chunk /\ w.chunk < Chunks
  \/ m.type = "itemEnd" /\ w.state = "receiving"
       /\ m.item = w.item /\ w.chunk = Chunks
  \/ m.type = "finish" /\ w.state = "readyToFinish"

Written(w, m) ==
  IF m.type = "begin" THEN [w EXCEPT !.state = "receiving"]
  ELSE IF m.type = "chunk" THEN [w EXCEPT !.chunk = @ + 1]
  ELSE [w EXCEPT !.item = @ + 1, !.chunk = 0,
                 !.state = IF w.item + 1 = Items THEN "readyToFinish"
                           ELSE "receiving"]

\* handleData; writes is FALSE if the directory or a file fails.
handleData(n, writes) ==
  /\ Receives(n, {"begin", "chunk", "itemEnd", "finish"})
  /\ LET m == Head(inbox[n])
         t == m.id
         w == incoming[n]
     IN IF t \notin Sessions(n) \/ route[t].target # n
        THEN Ignores(n)
        ELSE IF n \notin entitled
        THEN failSession(n, t, << >>, Taken(n))
        ELSE IF w.id # t
        THEN Ignores(n)
        ELSE IF ~writes \/ ~Accepts(w, m)
        THEN failSession(n, t, << >>, Taken(n))
        ELSE IF m.type = "finish"
        THEN Posts(n, OtherEnd(n, t), <<Control("completed", t)>>, Taken(n))
             /\ Closes(n, t, "completed")
        ELSE /\ incoming' = [incoming EXCEPT ![n] = Written(w, m)]
             /\ phase' = [phase EXCEPT ![n][t] = "receiving"]
             /\ inbox' = Taken(n) /\ UNCHANGED <<upstream, outgoing>>
  /\ writes \/ Faults
  /\ UNCHANGED <<peerVars, entitled, idVars, sendScheduled, edgeVars>>

\* Completion is believed only while data are on their way.
handleResult(n) ==
  /\ Receives(n, {"completed", "failed"})
  /\ LET m == Head(inbox[n])
         t == m.id
     IN IF t \notin Sessions(n)
             \/ (m.type = "completed"
                   /\ phase[n][t] \notin {"sending", "receiving"})
        THEN Ignores(n)
        ELSE /\ Closes(n, t, m.type)
             /\ inbox' = Taken(n) /\ UNCHANGED upstream
  /\ UNCHANGED <<peerVars, entitled, idVars, sendScheduled, edgeVars>>

-----------------------------------------------------------------------------
(* The server, and the outside.                                            *)

\* What a client sent is routed.  A message for a screen that is not connected
\* is dropped and nobody is told.
routeFileTransfer(c) ==
  /\ upstream[c] # << >> /\ Head(upstream[c]).type # "request"
  /\ upstream' = [upstream EXCEPT ![c] = Tail(@)]
  /\ LET to == OtherEnd(c, Head(upstream[c]).id)
     IN inbox' = IF to \in Running
                 THEN [inbox EXCEPT ![to] = Append(@, Head(upstream[c]))]
                 ELSE inbox
  /\ UNCHANGED <<peerVars, entitled, idVars, sessionVars, sendScheduled,
                 edgeVars>>

\* The server says what lies behind the edge.
handleFileTransferEdge(c, target) ==
  /\ upstream[c] # << >> /\ Head(upstream[c]).type = "request"
  /\ target \in (Running \union {NoScreen}) \ {c}
  /\ upstream' = [upstream EXCEPT ![c] = Tail(@)]
  /\ LET r == Head(upstream[c]).request
     IN /\ inbox' = [inbox EXCEPT ![c] = Append(@, Response(r, target))]
        /\ answer' = [answer EXCEPT ![r] = target]
  /\ UNCHANGED <<peerVars, entitled, idVars, sessionVars, sendScheduled,
                 requests, pendingEdge>>

\* ClientApp::handleClientConnected starts the client's service.
Connect(c) ==
  /\ c \notin connected /\ connects[c] < MaxConnects
  /\ connected' = connected \union {c}
  /\ connects' = [connects EXCEPT ![c] = @ + 1]
  /\ UNCHANGED <<entitled, idVars, sessionVars, sendScheduled, edgeVars, netVars>>

\* ClientApp::handleClientDisconnected deletes it; what was under way is lost.
Disconnect(c) ==
  /\ Drops /\ c \in connected
  /\ connected' = connected \ {c}
  /\ phase' = [phase EXCEPT
                 ![c] = [t \in Id |-> IF @[t] \in Live THEN "gone" ELSE @[t]]]
  /\ outgoing' = [outgoing EXCEPT ![c] = NoReader]
  /\ incoming' = [incoming EXCEPT ![c] = NoWriter]
  /\ sendScheduled' = sendScheduled \ {c}
  /\ pendingEdge' = [pendingEdge EXCEPT ![c] = 0]
  /\ upstream' = [upstream EXCEPT ![c] = << >>]
  /\ inbox' = [inbox EXCEPT ![c] = << >>]
  /\ UNCHANGED <<connects, entitled, idVars, requests, answer>>

\* The licence is removed or runs out.
Expire(n) ==
  /\ Expiry /\ n \in entitled
  /\ entitled' = entitled \ {n}
  /\ UNCHANGED <<peerVars, idVars, sessionVars, sendScheduled, edgeVars, netVars>>

\* Nothing is under way.
Quiet ==
  /\ sendScheduled = {} /\ \A n \in Node : pendingEdge[n] = 0
  /\ \A c \in Conn : upstream[c] = << >>
  /\ \A n \in Node : inbox[n] = << >>
Rests == Quiet /\ UNCHANGED vars

Next ==
  \/ \E c \in Conn : DropOnPrimary(c)
  \/ \E c \in Conn : DropOnClient(c)
  \/ \E c \in Conn : expirePendingEdgeRequest(c)
  \/ \E n \in Node : handleEdgeMessage(n)
  \/ \E n \in Node, w \in BOOLEAN : handleOffer(n, w)
  \/ \E n \in Node, r \in BOOLEAN : handleDecision(n, r)
  \/ \E n \in Node, r, o \in BOOLEAN : processNextOutgoingChunk(n, r, o)
  \/ \E n \in Node, w \in BOOLEAN : handleData(n, w)
  \/ \E n \in Node : handleResult(n)
  \/ \E c \in Conn : routeFileTransfer(c)
  \/ \E c \in Conn, n \in Node \union {NoScreen} : handleFileTransferEdge(c, n)
  \/ \E c \in Conn : Connect(c)
  \/ \E c \in Conn : Disconnect(c)
  \/ \E n \in Node : Expire(n)
  \/ Rests

Spec == Init /\ [][Next]_vars

\* Each event loop handles what it is given, and the server routes what it is
\* sent; the timer of a request fires.
Handles(n) ==
  \/ handleEdgeMessage(n) \/ handleResult(n)
  \/ \E b \in BOOLEAN : handleOffer(n, b) \/ handleDecision(n, b)
                         \/ handleData(n, b)
SendsOn(n) == \E r, o \in BOOLEAN : processNextOutgoingChunk(n, r, o)
Routes(c) ==
  \/ routeFileTransfer(c)
  \/ \E n \in Node \union {NoScreen} : handleFileTransferEdge(c, n)
FairSpec ==
  /\ Spec
  /\ \A n \in Node : WF_vars(Handles(n)) /\ WF_vars(SendsOn(n))
  /\ \A c \in Conn : WF_vars(Routes(c)) /\ WF_vars(expirePendingEdgeRequest(c))

-----------------------------------------------------------------------------
(* Properties.                                                             *)

Route == [source : Node, target : Node, request : 0 .. MaxRequests]

\* Every variable has its type: in particular a writer's and a reader's place
\* stay within the files of their offer.
TypeOK ==
  /\ connected \subseteq Conn /\ connects \in [Conn -> 0 .. MaxConnects]
  /\ entitled \subseteq Node /\ drawn \in 0 .. MaxTransfers
  /\ route \in [Id -> Route] /\ phase \in [Node -> [Id -> Phase]]
  /\ outgoing \in [Node -> Reader \union {NoReader}]
  /\ incoming \in [Node -> Writer \union {NoWriter}]
  /\ sendScheduled \subseteq Node
  /\ requests \in 0 .. MaxRequests
  /\ pendingEdge \in [Node -> 0 .. MaxRequests]
  /\ answer \in [1 .. MaxRequests -> Node \union {NoScreen}]

\* A service has one session at most, and holds a reader only while it sends
\* it, a writer exactly while it receives it: handlers that end a session, of
\* which there are many, leave neither behind, or the next transfer of the
\* service could not be served.
ResourcesMatchSessions ==
  \A n \in Node :
    /\ Cardinality(Sessions(n)) <= 1
    /\ outgoing[n] # NoReader =>
         outgoing[n].id \in Id /\ phase[n][outgoing[n].id] = "sending"
         /\ n \in sendScheduled
    /\ \A t \in Id : incoming[n].id = t <=>
         phase[n][t] \in {"awaitingData", "receiving"}

\* The two ends never disagree on how a transfer ended: the source believes
\* that it completed only if the target has published every file, and that it
\* failed or was rejected only if the target has not and will not.
OutcomesAgree ==
  \A t \in 1 .. drawn :
    LET source == phase[route[t].source][t]
        target == phase[route[t].target][t]
    IN /\ source = "completed" => target = "completed"
       /\ source = "rejected" => target = "rejected"
       /\ source = "failed" => target # "completed"

\* The data of a transfer reach its writer in the order it takes them, whatever
\* else the streams carry: no transfer fails over its own messages.
DataAreInTurn ==
  \A n \in Node :
    (Receives(n, {"begin", "chunk", "itemEnd", "finish"})
       /\ incoming[n].id = Head(inbox[n]).id) =>
      Accepts(incoming[n], Head(inbox[n]))

\* The files of a drop on a client's edge are offered to the screen the server
\* named for that drop, not to that of an earlier one whose answer came late.
FilesGoWhereDropped ==
  \A t \in 1 .. drawn : route[t].source # Primary =>
    route[t].target = answer[route[t].request]

\* A transfer that was offered ends at both its ends: each is told how, for a
\* service with a session refuses every other transfer, and no timer or command
\* ends one.
TransfersEnd ==
  \A n \in Node, t \in Id :
    phase[n][t] \in Live ~> phase[n][t] \in Ended \union {"gone"}
=============================================================================
