--------------------------- MODULE InputSessions ----------------------------
(***************************************************************************)
(* Sessions in which one computer controls another with its own keyboard   *)
(* and mouse (gui/session/SessionController.cpp), the server that routes   *)
(* their messages and grants the leases for which it pauses its own        *)
(* forwarding (common/ProfessionalMessage.cpp, Server::routeProfessional). *)
(* Every computer runs a controller, the server's own included; messages   *)
(* go through the server, on one FIFO stream in each direction.            *)
(*                                                                         *)
(* Abstracted: the input itself, media sessions, permissions remembered    *)
(* (consent may be given at once), limits on numbers of sessions.  Time: a *)
(* session may end at any moment (the user, the licence, a locked desktop, *)
(* sixty seconds without consent); the pings that keep an active session,  *)
(* its route and its lease alive for six seconds are not messages here, so *)
(* a route or lease may expire only when neither end is active.  Generated *)
(* identifiers of connections are always those of the route, as a route is *)
(* forgotten with its ends' connections.                                   *)
(***************************************************************************)
EXTENDS Naturals, Sequences, FiniteSets

CONSTANTS
  Computer,    \* computers
  Hub,         \* the one that runs the server
  Session,     \* fresh session identifiers
  Feature,     \* "bidirectional-control", "simultaneous-input"
  MaxMail      \* bound: messages under way on one stream

ASSUME HubIsAComputer == Hub \in Computer
ASSUME InputFeatures ==
  Feature \subseteq {"bidirectional-control", "simultaneous-input"}
ASSUME MaxMailAssumption == MaxMail \in Nat

VARIABLES
  m_sessions,   \* SessionController::m_sessions of each computer
  m_peers,      \* whom each controller believes connected
  m_online,     \* computers whose core is connected to the server
  known,        \* computers the server serves (m_clients)
  m_routes,     \* SessionRouteBook, with the lease of InputLeaseBook
  toHub,        \* messages under way to the server
  fromHub,      \* and from it
  requested     \* identifiers already used

sessionVars ==
  <<m_sessions, m_peers, m_online, known, m_routes, toHub, fromHub, requested>>

SessionEntry == [id : Session, peer : Computer, feature : Feature,
          outgoing : BOOLEAN, active : BOOLEAN]
\* A route and its lease are made, accepted, kept alive, closed and forgotten
\* by the same messages: a record is both.
SessionRoute == [id : Session, source : Computer, target : Computer,
          feature : Feature, accepted : BOOLEAN]
SessionMessage == [op : {"open", "accept", "close"}, id : Session, source : Computer,
           target : Computer, feature : Feature]
            \cup [op : {"peers"}, peers : SUBSET Computer]

\* Types: no computer has a session with itself, identifiers are unique
\* within a computer and a route, and only known computers have routes.
SessionTypeOK ==
  /\ m_sessions \in [Computer -> SUBSET SessionEntry]
  /\ \A c \in Computer : \A s, t \in m_sessions[c] :
       s.peer # c /\ (s.id = t.id => s = t)
  /\ m_peers \in [Computer -> SUBSET Computer]
  /\ m_online \subseteq Computer /\ Hub \in m_online
  /\ known \subseteq Computer /\ m_online \subseteq known
  /\ m_routes \subseteq SessionRoute
  /\ \A r, q \in m_routes : r.id = q.id => r = q
  /\ \A r \in m_routes : {r.source, r.target} \subseteq known
  /\ toHub \in [Computer -> Seq(SessionMessage)]
  /\ fromHub \in [Computer -> Seq(SessionMessage)]
  /\ requested \subseteq Session

SessionInit ==
  /\ m_sessions = [c \in Computer |-> {}]
  /\ m_peers = [c \in Computer |-> {}]
  /\ m_online = Computer /\ known = Computer
  /\ m_routes = {}
  /\ toHub = [c \in Computer |-> << >>]
  /\ fromHub = [c \in Computer |-> << >>]
  /\ requested = {}

----------------------------------------------------------------------------
(* The controllers.                                                        *)

LetterOf(c, s, op) == [op |-> op, id |-> s.id, source |-> c,
                       target |-> s.peer, feature |-> s.feature]
HasRoomFor(queue) == Len(queue) < MaxMail
Sends(c, s, op) ==
  /\ HasRoomFor(toHub[c])
  /\ toHub' = [toHub EXCEPT ![c] = Append(@, LetterOf(c, s, op))]

Holds(c, id) == \E s \in m_sessions[c] : s.id = id
IsActive(c, id) == \E s \in m_sessions[c] : s.id = id /\ s.active

\* What stands in the way of a new request: a session of input in the other
\* direction, or any but one more of those that share their input.
Conflicts(s, peer, feature) ==
  \/ s.peer = peer /\ s.feature = feature
  \/ ~s.outgoing
  \/ s.feature # feature
  \/ feature = "bidirectional-control"

request(c, peer, id, feature) ==
  /\ c \in m_online /\ peer \in m_peers[c] /\ id \notin requested
  /\ \A s \in m_sessions[c] : ~Conflicts(s, peer, feature)
  /\ LET s == [id |-> id, peer |-> peer, feature |-> feature,
               outgoing |-> TRUE, active |-> FALSE]
     IN /\ m_sessions' = [m_sessions EXCEPT ![c] = @ \cup {s}]
        /\ Sends(c, s, "open")
  /\ requested' = requested \cup {id}
  /\ UNCHANGED <<m_peers, m_online, known, m_routes, fromHub>>

\* closeSession with the other end told: by the user, the emergency exit,
\* the end of the licence, a locked desktop, a failure, or time.
ClosesQuietly(c, s) ==
  /\ c \in m_online /\ s \in m_sessions[c]
  /\ m_sessions' = [m_sessions EXCEPT ![c] = @ \ {s}]
  /\ UNCHANGED <<m_peers, m_online, known, m_routes, toHub, fromHub, requested>>
closeSession(c, s) ==
  /\ c \in m_online /\ s \in m_sessions[c]
  /\ m_sessions' = [m_sessions EXCEPT ![c] = @ \ {s}]
  /\ Sends(c, s, "close")
  /\ UNCHANGED <<m_peers, m_online, known, m_routes, fromHub, requested>>

\* acceptSession: an input session is not accepted beside an active one.
HasInputOwner(c, s) == \E t \in m_sessions[c] \ {s} : t.active
Activated(s) == [s EXCEPT !.active = TRUE]

consent(c, s) ==
  /\ c \in m_online /\ s \in m_sessions[c] /\ ~s.outgoing /\ ~s.active
  /\ IF HasInputOwner(c, s)
       THEN /\ m_sessions' = [m_sessions EXCEPT ![c] = @ \ {s}]
            /\ Sends(c, s, "close")
       ELSE /\ m_sessions' = [m_sessions EXCEPT
                                ![c] = (@ \ {s}) \cup {Activated(s)}]
            /\ Sends(c, s, "accept")
  /\ UNCHANGED <<m_peers, m_online, known, m_routes, fromHub, requested>>

\* Two of the same kind between the same computers are not kept.
IsNew(c, m) ==
  \A s \in m_sessions[c] :
    s.id # m.id /\ ~(s.peer = m.source /\ s.feature = m.feature)
Incoming(m) == [id |-> m.id, peer |-> m.source, feature |-> m.feature,
                outgoing |-> FALSE, active |-> FALSE]
Matching(c, m) == {s \in m_sessions[c] :
  s.id = m.id /\ s.peer = m.source /\ s.feature = m.feature}
Accepted(c, m) == {s \in Matching(c, m) : s.outgoing}

Received(c, m) ==
  CASE m.op = "open"   -> IF IsNew(c, m) THEN m_sessions[c] \cup {Incoming(m)}
                          ELSE m_sessions[c]
    [] m.op = "close"  -> m_sessions[c] \ Matching(c, m)
    [] m.op = "accept" -> (m_sessions[c] \ Accepted(c, m))
                            \cup {Activated(s) : s \in Accepted(c, m)}

\* Reading a list of peers ends the sessions with those who are not on it;
\* other messages are read only if they come from a peer.
receive(c) ==
  /\ c \in m_online /\ fromHub[c] # << >>
  /\ fromHub' = [fromHub EXCEPT ![c] = Tail(@)]
  /\ LET m == Head(fromHub[c]) IN
     IF m.op = "peers"
       THEN /\ m_peers' = [m_peers EXCEPT ![c] = m.peers]
            /\ m_sessions' = [m_sessions EXCEPT
                 ![c] = {s \in @ : s.peer \in m.peers}]
       ELSE /\ m_sessions' = [m_sessions EXCEPT
                 ![c] = IF m.source \in m_peers[c] THEN Received(c, m) ELSE @]
            /\ UNCHANGED m_peers
  /\ UNCHANGED <<m_online, known, m_routes, toHub, requested>>

\* An active session whose pings go unanswered for six seconds.
ExpiresIfActive(c, s) ==
  s.active /\ ~IsActive(s.peer, s.id) /\ closeSession(c, s)
SessionExpires(c, s) ==
  /\ ~IsActive(s.peer, s.id)
  /\ closeSession(c, s)

----------------------------------------------------------------------------
(* The server.                                                             *)

RouteOf(m) == {r \in m_routes : r.id = m.id /\ r.feature = m.feature /\
                                {r.source, r.target} = {m.source, m.target}}
NewRoute(m) == [id |-> m.id, source |-> m.source, target |-> m.target,
                feature |-> m.feature, accepted |-> FALSE]

\* observe of both books: which messages pass, and what becomes of the
\* routes.  Only the target's acceptance, and only the first, counts.
AcceptsRoute(m) ==
  \E r \in RouteOf(m) : r.source = m.target /\ ~r.accepted
PassesUnrouted(m) ==
  m.op = "open" => \A r \in m_routes : r.id # m.id
Passes(m) ==
  \/ m.op = "open" /\ \A r \in m_routes : r.id # m.id
  \/ m.op = "close" /\ ((\E r \in m_routes : r.id = m.id) => RouteOf(m) # {})
  \/ m.op = "accept" /\ AcceptsRoute(m)
Routes(m) ==
  CASE m.op = "open"   -> m_routes \cup {NewRoute(m)}
    [] m.op = "close"  -> m_routes \ RouteOf(m)
    [] m.op = "accept" -> (m_routes \ RouteOf(m)) \cup
                          {[r EXCEPT !.accepted = TRUE] : r \in RouteOf(m)}

routeProfessional(c) ==
  /\ toHub[c] # << >>
  /\ toHub' = [toHub EXCEPT ![c] = Tail(@)]
  /\ LET m == Head(toHub[c]) IN
     \/ /\ m.target \in known /\ Passes(m)
        /\ m_routes' = Routes(m)
        /\ IF m.target \in m_online
             THEN /\ HasRoomFor(fromHub[m.target])
                  /\ fromHub' = [fromHub EXCEPT ![m.target] = Append(@, m)]
             ELSE UNCHANGED fromHub
     \/ /\ m.target \notin known \/ ~Passes(m)
        /\ UNCHANGED <<m_routes, fromHub>>
  /\ UNCHANGED <<m_sessions, m_peers, m_online, known, requested>>

\* The answer to a discover, which every controller sends each three seconds;
\* one at a time is under way.
AwaitsPeers(c) == \E i \in DOMAIN fromHub[c] : fromHub[c][i].op = "peers"
discover(c) ==
  /\ c \in m_online /\ HasRoomFor(fromHub[c]) /\ ~AwaitsPeers(c)
  /\ fromHub' = [fromHub EXCEPT
       ![c] = Append(@, [op |-> "peers", peers |-> known \ {c}])]
  /\ UNCHANGED <<m_sessions, m_peers, m_online, known, m_routes, toHub,
                 requested>>

\* A route, with its lease, that nothing has kept alive.
RouteExpires(r) ==
  /\ r \in m_routes
  /\ ~IsActive(r.source, r.id) /\ ~IsActive(r.target, r.id)
  /\ m_routes' = m_routes \ {r}
  /\ UNCHANGED <<m_sessions, m_peers, m_online, known, toHub, fromHub,
                 requested>>

\* A core that is no longer connected stops the controller's sessions;
\* nobody is told.
setOffline(c) ==
  /\ c \in m_online \ {Hub}
  /\ m_online' = m_online \ {c}
  /\ m_sessions' = [m_sessions EXCEPT ![c] = {}]
  /\ m_peers' = [m_peers EXCEPT ![c] = {}]
  /\ toHub' = [toHub EXCEPT ![c] = << >>]
  /\ fromHub' = [fromHub EXCEPT ![c] = << >>]
  /\ UNCHANGED <<known, m_routes, requested>>

\* removeClient: the server forgets the computer's routes and leases.
forget(c) ==
  /\ c \in known \ m_online
  /\ known' = known \ {c}
  /\ m_routes' = {r \in m_routes : c \notin {r.source, r.target}}
  /\ UNCHANGED <<m_sessions, m_peers, m_online, toHub, fromHub, requested>>

setOnline(c) ==
  /\ c \notin known
  /\ known' = known \cup {c}
  /\ m_online' = m_online \cup {c}
  /\ UNCHANGED <<m_sessions, m_peers, m_routes, toHub, fromHub, requested>>

SessionNext ==
  \/ \E c \in Computer :
       \/ \E peer \in Computer, id \in Session, f \in Feature :
            request(c, peer, id, f)
       \/ \E s \in m_sessions[c] :
            closeSession(c, s) \/ consent(c, s) \/ SessionExpires(c, s)
       \/ receive(c) \/ routeProfessional(c) \/ discover(c)
       \/ setOffline(c) \/ forget(c) \/ setOnline(c)
  \/ \E r \in m_routes : RouteExpires(r)

\* Event loops run; pings that get no answer, and routes that get no pings,
\* expire; the server notices a lost connection.
SessionFairness ==
  /\ \A c \in Computer :
       /\ WF_sessionVars(receive(c))
       /\ WF_sessionVars(routeProfessional(c))
       /\ WF_sessionVars(forget(c))
       /\ \A id \in Session :
            WF_sessionVars(\E s \in m_sessions[c] :
                             s.id = id /\ SessionExpires(c, s))
  /\ \A id \in Session :
       WF_sessionVars(\E r \in m_routes : r.id = id /\ RouteExpires(r))

SessionSpec == SessionInit /\ [][SessionNext]_sessionVars
SessionFairSpec == SessionSpec /\ SessionFairness

----------------------------------------------------------------------------
(* Properties.                                                             *)

Carries(queue, op, id) ==
  \E i \in DOMAIN queue : queue[i].op = op /\ queue[i].id = id

\* While the server routes it, a controller has control only of a computer
\* whose user has agreed to it and has not stopped it since, unless the news
\* of the end is on its way to the server.
ControlIsAgreed ==
  \A c \in Computer : \A s \in m_sessions[c] :
    s.active /\ s.outgoing =>
      \/ IsActive(s.peer, s.id)
      \/ Carries(toHub[s.peer], "close", s.id)
      \/ s.peer \notin m_online
      \/ \A r \in m_routes : r.id # s.id

\* The server's own forwarding is paused before a computer starts to send its
\* input (docs/dev/workspace-sharing.md:51-52), and stays so as long as the
\* other computer takes it.
HasLease(id) == \E r \in m_routes : r.id = id /\ r.accepted
ForwardingIsPaused ==
  \A c \in Computer : \A s \in m_sessions[c] :
    s.active /\ s.outgoing =>
      \/ HasLease(s.id)
      \/ s.peer \notin known
      \/ ~IsActive(s.peer, s.id)

\* What is over ends everywhere: a session that one end has lost ends at the
\* other, and a lease that no controller uses ends, and with it the pause
\* (docs/dev/workspace-sharing.md:55, "A stale lease expires").
SessionsAgree ==
  \A c \in Computer, id \in Session :
    (\E s \in m_sessions[c] : s.id = id /\ ~Holds(s.peer, id))
      ~> (\A s \in m_sessions[c] : s.id = id => Holds(s.peer, id))
StaleLeasesEnd ==
  \A id \in Session :
    (HasLease(id) /\ \A c \in Computer : ~Holds(c, id)) ~> ~HasLease(id)
SessionsEnd == SessionsAgree /\ StaleLeasesEnd

\* "Only one input owner is allowed" (docs/dev/workspace-sharing.md:50): a
\* computer that is controlled does not control another.
OneInputOwner ==
  \A c \in Computer : \A s, t \in m_sessions[c] :
    s.active /\ t.active => s.outgoing = t.outgoing
=============================================================================
