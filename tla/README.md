# TLA+ models of ieum

ieum lets one keyboard and mouse work on several computers: the computer they
are plugged into runs the *server*, the others run *clients*, and the cursor
walks over the edge of one screen onto the next. The clipboard follows the
cursor, and the professional edition also copies files dropped on an edge and
lets one computer's user take over another. This directory holds TLA+ models of
the parts of that program whose correctness depends on the order of events on
several machines, the TLC configurations that check them, and TLAPS proofs.

Paths below are relative to the repository (`src/lib/...`).

## Contents

| Module | What it is |
|---|---|
| `Focus` | What the server promises about the keyboard and mouse, in three actions |
| `ScreenSwitch` | The server's screens: joining, leaving, every way to switch |
| `ServerLife` | When the application has a server: suspend, resume, quit, and the close of one |
| `Server_proofs` | TLAPS proofs about the two, up to the refinement of `Focus` and to the server following the machine's power |
| `ClipboardShare` | One clipboard shared by the screens: ownership, sequence numbers, data |
| `ClipboardShare_proofs` | TLAPS proofs that the last copy can be pasted where the cursor is, and of what that rests on |
| `FileTransfer` | Files dropped on an edge: requests, offers, data, results, routing |
| `FileTransfer_proofs` | TLAPS proofs of its types, that a service holds what its session needs, and where files go |
| `FileTransferOutcomes_proofs` | TLAPS proofs that the two ends agree on the outcome of a transfer, and that data come in turn |
| `KeyRelay` | Keys sent to one screen or to several, and their releases |
| `InputSessions` | One computer controlling another: consent, routes, leases, the pause |
| `Input_proofs` | TLAPS proofs about the two: records are right, no key stays down, control is agreed and pauses the server's forwarding |
| `EventFifo` | What the event queue promises, in three actions |
| `EventQueue` | The event queue with its table, buffer, pending events and timers |
| `SocketMultiplexer` | The poll thread, the list of jobs and its two locks |
| `DataSocket` | A connected socket, plain or TLS, between its two threads |
| `StreamBuffer` | The byte buffer of sockets and filters |
| `PacketStream` | Packets on a stream, the end of the stream, the listener's turns |
| `Threads_proofs` | TLAPS proofs about the five: the queue's numbers, timers and refinement of `EventFifo`; the list of jobs and its locks; bytes sent in order and once; buffers that keep their bytes; packets read whole and to the end |
| `ClientAdmission` | From an accepted socket to the server's list of clients |
| `ClientConnection` | How a client finds a server and keeps to it |
| `Connections_proofs` | TLAPS proofs about the two: a proxy has one owner and nobody is forgotten; a client always has a way on |
| `ServiceLink` | What the GUI and the daemon of a Windows computer share: their socket, the settings, the core processes |
| `Watchdog` | The daemon: one core kept running, requests answered |
| `CoreProcess` | The GUI's start, stop, restart and retry of the core, in desktop and service mode |
| `Processes` | The two together, with the user and what may fail |
| `Processes_proofs` | TLAPS proofs that the user is obeyed, the daemon consistent, and that the two agree |
| `MCScreenSwitch`, `MCServer`, `MCFileTransfer`, `MCInput`, `MCMessages`, `MCConnections`, `MCProcesses` | Instances for TLC; their `.cfg` files are the runs |

Run `tlc -config MCScreenSwitch_calm.cfg MCScreenSwitch` and so on;
`tlapm Server_proofs.tla`, and so for the other modules of proofs, checks
the proofs (the longest takes some ten minutes). (`tlapm` 1.4.5 tells its SMT
solver that `Len(s) = n` exactly when `DOMAIN s = 1 .. n`, for any `s`, which
functions on other domains contradict. Every leaf is proved, too, when the solver
is given only that the former follows from the latter.) `PROJECT.json` maps every
definition to the lines it models, and lists runs, mutants, hazards and
theorems. A definition whose comment begins with "mutant:" is a plausible bug
that takes the place of the definition after it, to see that a property would
notice; no specification uses one.

`MCScreenSwitch`, `MCServer`, `MCInput`, `MCMessages` and `MCConnections` hold several modules
each, and `MCFileTransfer` two instances of one. In an instance these do not
interact: a behaviour belongs to one `part`, the others stay in a state in which
nothing has to happen, and the number of states is the sum of the parts'. What each part
assumes of another (that handlers run one at a time, that streams are FIFO, that
the poll thread waits its turn) is what the other one's properties say.

## The system

One process, `deskflow-core`, is either server or client; a GUI (`lib/gui`)
configures and starts it, on Windows through a daemon. Inside the core, one
event loop (`lib/base/EventQueue`) runs every handler of `lib/server` and
`lib/client` to completion; threads of the socket multiplexer and of the
platform only add events to it. So, seen from a module about the server or a
client, one handler is one atomic step, and what interleaves is *handlers*:
of timers, of several connections, of the local input, and of the machines at
the two ends of a stream.

| Component | State it keeps | Operations | Interacts with | What is hard |
|---|---|---|---|---|
| Screens and switching (`lib/server/Server`, `BaseClientProxy`, `PrimaryClient`; `lib/client/Client`, `lib/deskflow/Screen`) | `m_clients`, `m_clientSet`, `m_oldClients`, `m_active`, `m_activeSaver`, the pending switch (`m_switchScreen`, direction, timer, double tap), locks; each screen's `m_entered` | adopt, refuse, close and delete clients; switch by edge, timer, double tap, hot key, screen saver, input pause; enter, leave, close messages | the handshake hands proxies over; streams to clients; clipboard at every switch | raw pointers to proxies in three variables outlive the proxies unless each handler resets them; five-second close timer against disconnect event; handlers that switch while something else waits |
| Shared clipboard (`Server`, `PrimaryClient`, `ClientProxy1_0`, `ClientProxy1_6`, `Client`, `ServerProxy`) | owner, sequence number, data, dirty marks per proxy; the client's own flags | grab, changed, set, send in chunks, flush when the cursor leaves | switching; the event queues; the platform's clipboard | grabs and data of several machines cross; which are old is told by a number that only switches advance |
| File transfer (`lib/deskflow/FileTransferService`, `...SessionState`, `...ControlRouting`; `lib/platform` writers) | one session, a reader, a writer, a pending edge request, a queued send event | drop, request, offer, accept, reject, data, result, expiry | the server routes; `ClientApp` starts and deletes the service; the licence | two ends that must agree on the outcome while either may fail at any step; one slot for sessions |
| Input relay, key broadcast (`Server`, `BroadcastKeys.h`) | which screens have been sent a press | relay, broadcast, release | switching, input filter | release must follow the press through switches |
| Input filter (`lib/server/InputFilter`) | conditions, actions per hot key | match, perform, enable | `Server` events | actions re-enter the server |
| Configuration (`lib/server/Config`) | screens, aliases, links with edge intervals, options | edit, look up neighbours | `Server`, GUI | overlapping intervals, renaming |
| Handshake (`ClientListener`, `ClientProxyUnknown`, `ClientProxy1_x`) | new and waiting clients, timers, heartbeat | accept, hello, time out, hand over, heartbeat | sockets, `Server` | time-out against an answer that is already queued |
| Client (`Client`, `ServerProxy`) | stream, `m_active`, `m_ready`, suspension, timers | connect, handshake, reconnect, suspend, resume | sockets, `ClientApp`, screen | retries, stale state from the last connection |
| Applications (`ServerApp`, `ClientApp`) | start state machine, retry timers | start, stop, retry, suspend, reset | client and server objects | start interleaved with retry, suspend and reload |
| Event queue (`EventQueue`, `SimpleEventQueueBuffer`) | events, handlers, timers, pending queue | add, dispatch, adopt buffer, delete timer | everything | threads; events before the loop is ready |
| Socket multiplexer (`lib/net/SocketMultiplexer`, `lib/mt`) | job list, two locks, cursor marks | add and remove jobs, poll | sockets | two locks passed between threads |
| Sockets (`TCPSocket`, `SecureSocket`, `SecureSocketWriteBuffer`) | buffers, connected, readable, writable, TLS retry | read, write, shut down, flush | multiplexer, streams | TLS retries with the same bytes; half-open connections |
| Packet streams (`PacketStreamFilter`, `StreamBuffer`) | size of the packet under way, buffer, end of input | filter, read, write | sockets, proxies | end of stream inside a packet |
| Clipboard chunks (`ClipboardChunk`, `StreamChunker`) | data under assembly, expected size | start, chunk, end | proxies | statics shared by connections |
| Input sessions (`ProfessionalMessage`, `SessionController`, `ProfessionalProtocol`) | leases, routes, expiry, session state | request, grant, renew, release, expire | hub, GUI, server's input pause | leases that lapse at one end first |
| Edge hand-off, cursor arithmetic (`EdgeHandoffDecision`, `CursorTransform.h`) | none | pure functions | switching | rounding at borders |
| Keyboard state (`KeyState`, `KeyMap`) | keys and modifiers held | press, repeat, release, sync | client, platform | keys held while the screen is left |
| Core and daemon IPC (`lib/deskflow/ipc`, `lib/gui/ipc`) | clients, greeting, subscription | connect, command, broadcast | GUI, daemon, core | order of greeting and commands |
| Daemon and watchdog (`deskflow-daemon`, `MSWindowsWatchdog`) | process state, command, back-off | start, restart, stop | IPC, processes | a process that ends while it is reconfigured |
| GUI process control (`CoreProcess`, `ServiceStartCoordinator`) | process state, generation, retries | start, stop, restart | IPC, daemon | answers to an earlier start |
| GUI, platform screens, input language, licensing, settings, platform layer, strings and codecs | see "Not modelled" | | | |

What makes each correct: screens — exactly one screen has the cursor and it is
one that is connected; clipboard — what was copied last can be pasted where the
cursor is; files — both ends agree how a transfer ended and nothing waits for
ever; key relay — each press has its release at the same screens; handshake —
every connection ends up served, refused or timed out; event queue and
multiplexer — no event or wake-up is lost and no thread waits for ever;
sockets and packets — the byte stream out is the byte stream in; sessions — one
controller at most per computer; process control — what runs is what was asked
for last.

## ScreenSwitch

State. Every field of `Server` that refers to a screen is a variable under its
own name (`m_clientSet`, `m_oldClients`, `m_active`, `m_activeSaver`,
`m_switchScreen`, ...). `proxies` says which proxy objects exist, so a pointer
to a deleted one is visible: the model holds the pointers as names of
connections, and a step that would use a dangling one is not taken (its outcome
is undefined) — the properties say that there is no need for it. `disconnecting`
is the set of proxies whose `ClientProxyDisconnected` event is queued. `up`,
`link` and `entered` are the clients: whether their end of the stream is open,
the messages under way, and `Screen::m_entered`.

Actions. `EdgeBlocked`, `EdgePending`, `EdgeSwitch`, `EdgeRefused` and
`noSwitch` are the outcomes of a motion event on the primary or on a secondary
screen (`onMouseMovePrimary`, `onMouseMoveSecondary`, `isSwitchOkay`);
`handleSwitchWaitTimeout`, `jumpToScreen` (hot keys and filter actions),
`ScreensaverOn`/`Off`, `pauseForProfessionalInput`, `setConfig` (with
`closeClients` and `processOptions`), `adoptClient`, `RefuseClient`,
`handleClientDisconnected` and `handleClientCloseTimeout` are the handlers of
these names; `ProxyDisconnects`, `ClientReceives` and `ClientDrops` are what
connections and clients do. `switchScreen` and `forceLeaveClient` are operators
the actions share, as in the code.

Abstracted: where a motion event lands is a choice, any edge may lead to any
served screen, a timer that runs may fire at any time, and options other than
the switching delays are left out. Two constants tell whether an awkward input
can happen: `SaverInput` (input reaches the server while the screen saver is
on) and `ShapeLost` (the primary's displays sleep and its shape is empty).

`Focus` is the promise: clients join, any set of them parts and the focus falls
back on the primary if it was theirs, and the focus moves to a screen that is
present. `ImplementsFocus` maps `present` to `m_clientSet` and `focus` to
`m_active`.

| Run | Bounds | Shows |
|---|---|---|
| `screens_calm`, screens | 2 machines, hot keys, edges, saver, pauses, reconfiguration; no delays; 2 messages under way | the active screen is served; it and no other has the cursor once messages arrive; enters and leaves alternate; `Focus` is implemented; closed clients are deleted and screens that are left give the cursor up (`LeavingEnds`) |
| ... life | 2 clients, 2 visits to each server, 3 suspends, resumes and quits | see `ServerLife` |
| `server`, screens | 2 connections that claim one name; all options on; 1 message under way | every proxy is owned once, even where the pointers to screens go stale |

Two connections are the least at which a screen is switched *to* while another
is left or closed, and at which a name is claimed twice; a third would behave
as one of the two, because every handler looks at the active screen, at a
target and at a set of others. Two messages under way let a "leave" be
overtaken by the next "enter" in the queue; `MaxLink` is in the guards
(`Room`). One direction suffices to be new, the same, or none. The runs are
finite without a state constraint, since a connection may be used again.

Fairness (`FairSpec`): the close timer fires, a queued disconnection is
handled, a stream delivers, a proxy or client whose peer is gone notices (end of
stream, three missed heartbeats, keep-alive), and a client that reads "close"
closes. Each is something the event loop or the operating system does without
anyone's help. Users, input and clients that were not told to close owe nothing:
`LeavingEnds` holds for a client that never answers, because of the timer.

### Proofs

`Server_proofs` holds, for any set of connections, names and directions
and any bound on messages:

* `TypeCorrect` and `ProxiesAreAccountedFor`, under every option.
* `CalmActiveIsServed`, `CalmOneScreenHasTheCursor`,
  `CalmEntersAndLeavesAlternate` and `CalmImplementsFocus`, assuming `Calm`:
  no switch delay, and no input and no lost shape while the saver can be on.
  Double taps, hot keys, locks, pauses, saver and reconfiguration are all
  allowed. `Calm` is as weak as the code permits: without it TLC finds
  counterexamples (see "What the code does not keep").

None of the last four properties is inductive. That the active screen is served
after a client goes depends on `forceLeaveClient` looking at the right screen,
which while the saver is on means that the active one is the primary
(`SaverShowsOnPrimary`) and otherwise that `m_activeSaver` is null; that an
enter reaches its screen depends on the stream not being closed already
(`ServedStayOpen`), which rests on a served proxy not being in the old list
(`ProxiesAccountedFor`); that enters and leaves alternate depends on the last
message under way telling whether the screen is active
(`OneScreenHasTheCursor`). `CalmInv` is the conjunction of these with `NoTimer`
(nothing waits for a timer, so no switch comes back to a stale target);
`CalmStep` shows that each action keeps it. Lemmas about sequences
(`AppendAlternates`, `TailAlternates`), about switching (`SwitchKeepsFocus`)
and about leaving (`CalmForceLeave`) serve several actions. The refinement
(`CalmRefinement`) maps every way to switch to `Move`, a departure or a
reconfiguration to `Part`, an adoption to `Join`, and the rest to stuttering.
The assumptions used are those the module declares: the primary and the null
pointer are not connections, and options are Boolean.

Only model-checked: `LeavingEnds`, because fairness is beyond the prover.

## ServerLife

`ServerApp` stops its server when the machine is suspended, starts another when
it resumes, and stops it at the end. `closeServer` asks the clients to go and
runs the event loop once more inside the handler, until the last client is gone
(`ServerDisconnected`) or three seconds have passed; both end that loop by
posting `Quit`, the event that also ends the application. `frames` are the calls
of `closeServer` on the stack, each with its timer; `lifeQueue` is the event
queue; `m_server`, `m_listener`, `m_fileTransferService` say whether the pointer
is set. `SuspendCloses` and `MainLoopEnds` go up to the nested loop and
`InnerLoopEnds` does the rest, with the part of the caller after it; between
them every other handler runs. A timer is taken only while no event waits
(`NothingWaits`, `EventQueue::processEvent`), and its handler and the posting of
`Quit` are two steps, between which other threads may post.

`upset` is history: an order came while the server was closing or another order
waited, or a close began while an old `ServerDisconnected` was queued. The
properties are about the other behaviours, because there the code keeps less
(see "What the code does not keep").

`screens_calm` checks `ServerFollowsPower` (at rest there is a server exactly
while the machine is awake, or the last start has failed; the application ends
only when asked to; no `Quit` is left over for a later loop) and `ClosesEnd` (a
close ends whether or not the clients go; a quit ends the application). Two
clients let one go while another stays; two visits let a client come back while
its first goodbye is queued; three orders are a suspend, a resume and a quit.
Fairness: the loop goes on while events wait, and its timers expire.

### Proofs

`Server_proofs` proves `ServerFollowsPower` (`ServerAlwaysFollowsPower`) for any
set of clients and any bounds on their visits and on orders, from the assumption
that the bounds are natural numbers. Alone it is not inductive: it speaks of the
application at rest, and whether a close leaves it at rest depends on what is in
the queue meanwhile. `CloseInv` says that a close goes through four `Stages`:
clients stay; the last one has gone and its one `ServerDisconnected` waits with
no goodbye of a client before it (`DisconnectedWaits`); or the timer's handler
runs; then one `Quit` waits with no `ServerDisconnected` before it
(`QuitWaits`), so that no second `Quit` is posted. That no client that goes can
post another `ServerDisconnected` ahead rests on `VisitsInv`: a client yet to be
adopted has no goodbye in the queue. `OpenInv` says that nothing of a close is
left afterwards, but for late `ServerDisconnected`, which nobody hears;
`OrdersInv` and `FollowsInv` relate orders, power and `m_suspended`. The lemmas
about queues (`QueueTaken`, `QueuePosted`, `QueueAnswered`) say what taking an
event, adding one and both do to all of these; one lemma for each action follows
(`ArrivesKeeps` to `MainLoopEndsKeeps`). Only types, `PartsInv` and `VisitsInv`
hold once the application is `upset`. TLC checked `LifeInv` on three visits and
four orders before it was proved.

Only model-checked: `ClosesEnd`.

## ClipboardShare

State. For each screen, what its clipboard holds (`content`), whether the
platform knows it as this program's (`held`) and whether a copy is yet to be
reported (`unnoticed`). On the server: owner, sequence number, data, and dirty
marks (`ClipboardInfo`, `ClientProxy1_0::m_clipboard`), and the last data to or
from each client (`proxyClip`). On a client: `m_ownClipboard`, the data sent,
`m_active` and the number of the last enter. `events` and `clientEvents` are the
event queues: clipboard data leave through them (`StreamChunker`), behind
messages written at once, and that gap is where the orders differ.

Actions are the handlers: `Copy` and `Notice` (the platform), `Switch`
(`switchScreen`), `handleClipboardGrabbed`, `handleClipboardChanged`,
`SendClipboard`, `ServerReceives`, `ClientGrabs`, `ClientSends`, `Receives` (a
client), `Connect`, `Disconnect`. What the queue holds for a proxy that is
deleted finds no handler: `Disconnect` turns it into `gone`, which
`DispatchToNobody` drops. `AfterGrab` is what a screen has when it is told of a
grab: nothing, but on macOS what it had, because `OSXScreen::setClipboard` without
data does nothing. The two clipboards of the code behave alike and do not interact;
the model has one. Copies are numbered, so that old data can be told from new.

| Run | Bounds | Shows |
|---|---|---|
| `server`, calm | macOS; 2 clients, 2 copies, 4 switches; copies where the cursor is, when nothing is under way | the last copy can be pasted wherever the cursor is once things settle, and at once where it enters (`CopiesAreShared`) |
| ... background | macOS; 3 switches; copies on any screen | a client without the cursor has sent what was copied on it |
| ... drops | X11; 4 switches; copies where the cursor is, when nothing is under way; lost and new connections | a screen that is not dirty has the data; what the server accepts is the owner's |

One run covers the three, beside the screens: `setting` is chosen at the start,
and a property asks for the settings under which the code keeps it.

Two copies are needed for one to be older; three or four switches bring the
cursor to a second client and back while the data of the first are under way.
`MaxCopies`, `switches` and `MaxConnects` are in the guards of `Copy`,
`Switch` and `Connect`. The conditions on copies are what the promises need.
`InFocus` (neither `background` nor `hurried`) says that something is copied only
where the cursor is, once everything is told; `CalmCopies` that every copy is
noticed too, and no connection is lost. When copies are made in a hurry on two
machines, either may win, and data may be taken that are not the owner's ("What
the code does not keep"). In
every setting the two clients are interchangeable (a symmetry set): nothing
in the module names one, and the run checks no liveness. `CopiesAreShared` also
says, as the assertion in `onClipboardChanged` does, that data which are not old
come from the owner (`ExpectedClientInFocus`).

### Proofs

`ClipboardShare_proofs` has five theorems, for any clients, copies, switches and
connections, in every setting. Assumed are only that `Home` is no client, that
a setting has one of three platforms, and that bounds are natural numbers
(`HomeAssumption`, `SettingAssumption`, `CopyAssumption`). The first four follow
from `ClipboardInv`:

* `ClipboardIsAlwaysTyped`, from `Typed`: types, and that no number on its way
  is above the server's.
* `InactiveOwnersHaveAlwaysSent`, from `SentInv`: a client that owns the
  clipboard and is not active has sent it or has a grab to handle. It needs to
  know when a client is active: `GoneInv` says that nothing of a client that is
  not connected is left, `MovesInv` that the last enter or leave on its way, or
  its own state if there is none, agrees with `activeScreen`.
* `CleanScreensAlwaysHaveTheData` and `ExpectedClientAlwaysInFocus`, from
  `FocusInv`: while copies are made where the cursor is and when nothing is under
  way, there is one grab at most, in one of four stages (`Unnoticed`, `Reported`,
  `Told`, `Posted`); data on their way are behind the grab they belong to; the
  client the server expects data of is the one that sends them; and a clean screen
  has the server's data or will once what is on its way has come (`WillHave`).
* `CopiesAreAlwaysShared`, from `CopiesInv`, which adds where the last copy is
  when every copy is noticed and no connection lost (`LastInv`): on the screen
  whose grab is under way (`LastIsOf`), or on the owner's (`LastIsOwners`), and
  then its data are with the server, on their way there (`Brings`), or will be
  sent when the cursor leaves, in each case with a number that the server
  will not find old (`CountsFrom`). That rests on enters reaching a client in the
  order of their numbers (`OrderInv`).

None of these is inductive without the others: the data are behind their grab
only because a client that owns the clipboard sends nothing while it is active,
and it knows that it is active only from messages that may be on their way. TLC
checked each invariant on the instances of the run, and `OrderInv` and `LastInv`
on larger ones, before they were proved. The queues are handled by few lemmas:
`Added` and `Removed` say what adding an element and taking one leave of a
queue without certain elements (`NoneIn`), and `AfterKept` the same of an order
between two kinds.

## FileTransfer

State. Each computer's service is a slot: `phase` is its sessions
(`FileTransferSessionRegistry`, remembering how ended ones ended, for the
properties), `outgoing` the reader, `incoming` the writer, `sendScheduled` the
queued `FileTransferSendNextChunk`, `pendingEdge` the request that waits for the
server's answer. `upstream` and `inbox` are the streams to the server and to a
service; `entitled` is who has a licence now, read again at every step as the
code does. `answer` and `route[t].request` are history variables, used only by
`FilesGoWhereDropped`.

Actions are the service's handlers (`handleEdgeMessage`, `handleOffer`,
`handleDecision`, `processNextOutgoingChunk`, `handleData`, `handleResult`,
`expirePendingEdgeRequest`), the drop on an edge of the primary or of a client
(`beginEdgeDrop`), the server's routing (`routeFileTransfer`,
`handleFileTransferEdge`), and connections and licences. The Boolean parameters
of handlers are what the file system answers.

| Run | Bounds | Shows |
|---|---|---|
| `files`, losses | server and one client send, 2 transfers of one file, connections lost and made again, licences ending | one session per service, and exactly the reader or writer it needs; the two ends never disagree on the outcome |
| `files`, faults | one client sends, 2 transfers of 2 files, files and directories fail, late answers | data arrive in turn; files go where this drop was made; every transfer ends at both ends and leaves nothing |

Two transfers make one follow or cross the other; two files exercise the step
from one to the next; one chunk per file, with the end of a file in a message of
its own, gives every order of messages (an empty file only skips the chunk).
With losses files do not fail: an ended licence takes the same path
(`failSession`) at the same places.

Fairness: each event loop handles what is queued, the server routes what it is
sent, and the request's five-second timer fires. `TransfersEndDespiteFaults`
holds only while nobody else sends, no connection is lost and no licence ends:
the code has no timer that ends a session.

### Proofs

For any clients, senders and receivers, any files and bounds, and whatever
fails, ends or is lost:

* `TypeCorrect` (`FileTransfer_proofs`). `FullType` adds to `TypeOK` what the
  streams carry (`NetType`), because handlers read the fields of messages; that
  a reader or writer stays within its offer is `AdvanceType` and `WrittenType`.
* `ResourcesAreSessions`. The invariant is `Slots`: for each service, one
  session at most, with its reader and queued event, or its writer. With
  `FullType` it is inductive. `ClosesKeepsSlots`, `FailKeepsSlots` and
  `StartKeepsSlots` are the three things that happen to a slot.
* `OutcomesAreAgreed` (`FileTransferOutcomes_proofs`). Agreement is not
  inductive: what an end comes to believe is what a message tells it. `Agree` is
  the conjunction of `Ends` (who can be in which phase; agreement; a target that
  has completed has a source that has read everything), `Mail` (each message
  under way was true when sent and is still: a `completed` that the target has
  published, a `finish` that the source has no reader left and has not failed, an
  offer that the target has not seen, ...) and `Alone` (an offer and the decision
  on it are one token, which is in one queue at most: a source that sends cannot
  meet a second `accept`). Lemmas on queues (`TakeIn`, `TakeUp`, `PutIn`,
  `PutUp`) keep `Mail` and `Alone` when a message is taken or sent;
  `TargetChange`, `SourceChange`, `GoneChange` and `NewTransfer` keep `Ends` and
  `Mail` when sessions change; each action is one of the latter between two of
  the former. TLC checked the parts of `Agree` on the instance with losses
  and, with failing files, on one with a single transfer of two files.
* `FilesAlwaysGoWhereDropped` (`FileTransfer_proofs`). The server overwrites its
  `answer` to a request whenever it handles the request, so what has to hold is
  that it never will again: a request is in one stream at most, once
  (`AnswersInv`), and an answer that is under way, or that an offer was made for,
  is that of a request that is in no stream any more (`Settled`). Numbers of
  requests rise, so a new one cannot be taken for an old one.
* `DataAreAlwaysInTurn` (`FileTransferOutcomes_proofs`). A message of data has a
  mark: begin is <<0, 0>>, chunk k of file i <<i + 1, k>>, and so on to finish;
  `Succ` is the one that follows. What the writer expects (`Expected`) and what
  the reader sends next (`Coming`) are marks too. `Flow` says that the data of a
  transfer, in the target's queue and then in the source's stream, are a run: each
  mark is the one expected or follows on another in front of it, none is there
  twice, and what the source sends next follows on them and is above all. Then
  the first one is the one expected, and `WriterTakes` does the rest. `Turns`
  adds why a writer never meets data of its transfer that were sent before it was
  there: as long as the offer or its answer is under way there are none
  (`NoToken`, from `Alone` above); that an empty place of a client without a
  connection stays empty (`Linked`), so what is routed past it is never missed;
  and that a writer's place fits its state (`Placed`). `FlowSent`, `FlowRouted`,
  `FlowTaken` and `FlowCut` are what may happen to a run. Every other step leaves the
  transfer's part of the queues as it was (`Like`, `Alike`, `Steady`, `TurnKept`) or
  its target without a writer for it (`TurnLost`). TLC checked `Turns` on four
  instances before.

The assumptions used are those of the module: which computers there are, and
that bounds are numbers. `TransfersEndDespiteFaults`, being liveness, is only
model-checked.

## KeyRelay

State. `physical` is what the user holds down; `m_pressed` and `recipients` are
the records of `BroadcastKeys`; `held` is what a client's keyboard state has
down for the server (`m_serverKeys`), `entered` whether its screen is, `linked`
whether its end of the connection lives. `m_clients`, `m_active`,
`m_keyboardBroadcasting`, its screens, and `m_inputLanguageControlButtons` are
the server's fields. `sent` is history: the presses a screen got on its present
connection. `setting` says what may happen in a behaviour.

Actions: `onKeyDown`, `onKeyUp`, `onKeyRepeat`; `switchScreen`;
`handleKeyboardBroadcastEvent`; `pauseForProfessionalInput` and `PauseEnds`;
`addClient`, `cleanupScreen` (the client's end of a lost connection),
`removeClient` (the server's); `LicenceChanges`. `sendKeyDown` and `sendKeyUps`
are the operators they share.

`RecordsAreRight` and `NoKeyIsStuck` are what the record is for. The first says
that the release finds exactly those who got the press, on the connection they
have now; the second that no key is down at a client which the user has let go.
They relate what the server remembers to what clients did, through toggles,
switches, licences that end and names that come back.

## InputSessions

State. `m_sessions` and `m_peers` are each controller's
(`SessionController`), `m_routes` the server's (`SessionRouteBook`, one record
with the lease of `InputLeaseBook`, which the same messages make, accept, renew
and end), `toHub` and `fromHub` the streams. `known` are the computers the
server serves, `m_online` those whose core is connected: a lost connection is
noticed later (`forget`).

Actions: `request`, `consent` (with `acceptSession`), `closeSession` (the user,
the emergency exit, the licence, a locked desktop, failures), `receive`,
`SessionExpires`, `routeProfessional`, `discover`, `RouteExpires`, `setOffline`,
`forget`, `setOnline`. The pings that keep a session alive are not messages: a
route or session may expire as soon as nothing renews it, and never while both
ends are active.

| Run | Bounds | Shows |
|---|---|---|
| `input`, keys | 2 clients, 1 key, lists of one client and of a client with the server; every combination of pauses, losses, control keys | records are right; no key is stuck where none of the three happens |
| `input`, sessions | 2 computers, one of them the server, 2 session identifiers, 2 messages under way per stream | control is agreed; forwarding is paused before it begins; what one end ends, ends at the other, and leases end |
| `key_release`, `one_input_owner` | | disagreements, see below |

One key is enough because keys interact only in `releaseBroadcastKeys`, which
treats each alike; the proofs are for any number. Two identifiers let a session
follow or cross another between the same computers. Fairness: controllers and
the server handle what is queued, the server notices a lost connection, and
what nothing renews expires.

### Proofs

`Input_proofs`, about `KeyRelay` for any screens, keys, lists and settings:
`RelayTypeCorrect`, `RecordsAreAlwaysRight`, `NoKeyIsEverStuck`. None of the two
properties is inductive. `RelayInv` adds `KeyInv`: without control keys none is
remembered (`ControlsInv`), without losses every served client is linked and
only the active one is entered (`LossesInv`), without pauses nothing is paused
(`PausesInv`), and a key is held only by a client that is linked, or that was
lost (`HoldersInv`). A lemma per action shows that it keeps `RelayInv`. That a
background key is always recorded is what makes a release reach it; it needs
that a switch away from a client empties its keys (`SwitchesTo`).

The same module, about `InputSessions` for any computers, session identifiers and features:
`ControlIsAlwaysAgreed` and `ForwardingIsAlwaysPaused`. Neither says anything of
what is under way, so `SessionsInv` follows a session identifier through both
ends, the server's routes and the four streams. Once used it belongs to one
source, one target and one feature for good (`EntriesFit`, `RoutesFit`,
`LettersFit`); its request comes before anything else that is said of it, and
while it is under way nobody has answered (`RequestIsFirst`); an answer, given
or on its way, means that the target is still active, has said that it ends, or
is no longer routed (`AgreementHolds`); who has said that it ends no longer holds
it, and where the server has passed that on there is no route (`EndsHold`); an
answer that has passed the server has its lease (`PauseHolds`). An identifier
that was not requested is unknown everywhere (`Unused`). Lists of peers end
sessions too, and need `ListsAreRight`: whom a list leaves out has no route for
what the list will end. `Reading` and `Sending` say once what a message does to a
stream, `NotAbout` that a step leaves the other identifiers alone; each action is
then shown for the identifier it is about. The proof showed that the two
properties hold in a form stronger than was first stated: a close on its way
*to* the controller excuses nothing, since the route is gone by then.

## Events, sockets and streams

`EventQueue`. The loop's thread is at one of the places of `processEvent`
(`loopPc`); other threads add events in two steps, because `addEvent` reads
whether the loop is ready and then acts on it. Before that, events go to
`m_pending`, which no lock protects: `EndAdd` may lose one while `loop` moves
them, as the race allows. `m_events`, `m_oldEventIDs` and `m_queue` are the
table, the numbers to be used again, and the buffer. Timers are those of the
code, with `left` for `Timer::m_time` and `m_time` for the stopwatch; `clock`
and `since` are history. `EventFifo` is the promise: put at the end, take from
the front, discard all. `ImplementsFifo` maps its queue to the events whose
numbers wait, in the order of the buffer.

`DataSocket`. The main thread writes, reads, flushes and closes; the service
thread polls and runs the job. A step is a critical section, so the gaps of
the code are steps: `MakeJob` and `Install` come after `Write` has released the
mutex, and with TLS `close` is `Close`, `Remove` (in `freeSSL`), `Remove` (in
`TCPSocket::close`), `FinishClose`. `secure` chooses `doRead` and `doWrite`.
`wire` is what has been sent; bytes are numbers, so that order and loss show.
`pending` is what the TLS library remembers of a write that it wants repeated.
`DoRead` is five cases: nothing to read, bytes, the end of a plain stream
(`ReadEnd`), the end of a TLS connection or an error in it (`EndSecure`), and an
error of a plain one, which `serviceConnected` ignores (`ReadError`). In the last
two the reading loop is left before `StreamInputReady` is sent, so bytes that the
same run has put into an empty buffer are never announced
(`SecureSocket.cpp:148-151`).

`StreamBuffer` has the chunks themselves, with the used part of the first; peek,
pop and write are its three actions, with a chunk of 3 bytes.

`PacketStream` has the socket's input buffer, the filter's buffer, size and end
mark, and the listener in `handleData`: `HandleReady` is `readMore`, `ReadPacket`
is `read` by any amount, `Returns` the end of a turn. `events` is the queue of
the stream's events. A listener is a `ClientProxy`, which minds format errors,
or a `ServerProxy`, which does not (`onServer`). How a stream ends depends on the
socket (`overTls`): plainly, by `StreamInputShutdown` (`StreamEnds`); with TLS, by
`SocketDisconnected` and then `StreamInputShutdown`, the last bytes unannounced
(`SecureEnds`); by a failure, with what was received thrown away
(`ConnectionBreaks`). A client closes on `SocketDisconnected`, with packets
unread if there are any; a `ClientProxy` has no handler for it and waits for the
end, or for missed heartbeats (`HandleDisconnected`). `cut` says that something
the peer wrote never gets to the filter.

| Run | Bounds | Shows |
|---|---|---|
| `messages`, events | 1 more thread, 3 events, one of them to quit, no timers | numbers are unique, the queue is FIFO, what waits is taken |
| ... timers | timers of 1 and 2 units, one of them one-shot; 1 event; clock up to 2 | timers are on time, count periods and are quiet once deleted |
| ... socket | 2 bytes written, 1 received; plain and TLS; the peer closes or breaks at any time | bytes go out in order, once; what waits is noticed, but for input of a run that meets the end of a TLS connection or an error; close and flush return |
| ... buffer | chunks of 3 bytes, 9 bytes | peek returns the next bytes |
| ... packets | 2 packets of 1, 2 or 3 bytes where 2 is the most allowed; headers of 2 bytes; one message per turn; plain and TLS, cut and failing connections | what is announced is read in order, then the end is seen |
| `sockets_deadlock` | | disagreement, see below |

Three events make a number be used again while another waits. Two bytes are
enough for one to be written while the first is being retried. Chunks of 3 and 9
bytes give peeks across three chunks, with the first partly used. Packets of one
size more than allowed give the format error at each place. Fairness: the loop
goes on while it has something to do; both threads of a socket go on and get the
locks they wait for, the system takes bytes again and does not answer "later"
to every attempt. `FlushReturns` excludes a TLS failure and `CloseReturns` the
deadlock: there the code does not return (see below).

### Proofs

`Threads_proofs`, about `EventQueue` for any threads, events, timers and durations:

* `QueueTypeCorrect` and `NumbersAreAlwaysUnique`. The invariant (`TableInv`)
  adds to `NumbersAreUnique` that the table is finite: a finite set of numbers
  without gaps does not have its own size (`SizeIsNew`), which is why
  `saveEvent` may take the size of the table when no number is kept for use
  again.
* `QueueImplementsFifo`. `AddStep`, `TakeIDStep`, `TakeEventStep` and
  `DiscardStep` say what each step does to the events that wait: a number that
  is new leaves the others' events alone, and one that is distinct from those
  behind it can be taken out of the table without them.
* `TimersAreAlwaysOnTime`, from `TimersKeepTime` (`TimerStep`).

about `SocketMultiplexer` for any threads, sockets and jobs:

* `ListHasOneOwner`: one thread at most has the list, and one the lock on its
  lock.
* `NobodyEverOversleeps`. `LockInv` strengthens `PollIsInterrupted` to the time
  before the poll (`PollWillBeInterrupted`): whoever waits for the list while
  the service thread has it took the lock on its lock after that thread did, and
  so wrote the byte after the last poll. That one thread at most sleeps on the
  list's lock, which `signal` relies on, follows from `ListHasOneOwner`.
* `ListIsAlwaysStable`. `ListInv` adds to `LockInv` that a socket has one job in
  the list at most, that what was collected for the poll is the live part of the
  list in its order while nobody has edited it (`PollIsUpToDate`), and that a
  walk over the list is as many entries into the poll's answers as there are
  live entries before the cursor (`WalkIsInStep`). The rank of an entry among the live
  ones (`RankRises`, `RankIsUnique`, `RankIsOnto`) makes the two agree; a job
  that is removed leaves its place empty, which no rank changes for.

about `DataSocket` for any number of bytes, plain and TLS:

* `WhatIsWrittenIsSent`. Neither half of `BytesAreSent` is inductive. `OutputInv`
  says that the bytes in the buffer are numbered on from those that were sent,
  up to the last one written as long as the socket is writable; `RetriesInv`
  that the write to be repeated begins where sending stopped and stays a prefix
  of the buffer, although the buffer grows and, when the connection is lost, is
  emptied. `CountsOn`, `CountsFirst` and `CountsRest` are the facts about
  numbered sequences that the steps need.
* `NoWorkGoesUnnoticed`. `WorkInv` strengthens `WorkIsNoticed` to the time
  between `MakeJob` and `Install`: a job made with the mutex and installed
  without it may be out of date, but then only because there is less to do. Of
  input it says that it is announced, unless the TLS connection or the plain one
  has failed or ended in an unannounced run.
* `SocketTypeCorrect`, from `SocketTypeInv`: what was read and what waits to be
  read is no more than was sent.

about `StreamBuffer` for chunks of any size:

* `PeekIsAlwaysWhole`. Bytes are numbered as they are written. `ChunksInv` says
  that each chunk holds consecutive numbers and goes on where the one before
  ends (`Consecutive`), and that all of them together hold the numbers from the
  used part of the first chunk on up to the last one written (`Hold`). `Joined`,
  what `peek` makes of the first chunks, is a recursive function, and no
  induction theorem can be used: `JoinedCounts` shows what it is by looking at
  the least number of chunks for which it would be something else
  (`LeastNumber`), and that there is a function that satisfies the equation by
  giving one. `PeekStep`, `PopStep` and `WriteStep` then take chunks away at the
  front, join them and add them at the end (`HoldRest`, `HoldBoth`,
  `HoldChunked`).

about `PacketStream` for any packets, limits and sizes of headers:

* `PacketTypeCorrect`, `ListenerReadsBytes`, `PacketsGoOn` and `EndIsLastOfAll`
  are the four safety parts of `EverythingIsRead`. None is inductive.
  `StreamInv` looks at all that the listener has not read, wherever it is
  (`Stream`: the filter's buffer, the socket's, and what is under way): it is
  made of whole packets in the order they were written (`Ordered`), but for a
  first one that is partly read, and ends with the last byte written unless the
  stream was cut (`Complete`); its first byte is the one the filter waits for,
  the beginning of a header or as many bytes before the end of a packet as
  `m_size` says, and the next that the listener is to get (`Awaits`). Nothing
  that arrives comes behind the end (`EndIsLast`). Bytes that are never announced
  are those of a stream that was cut, and the theorems say no more of them. `HeaderSays` and
  `Takes` are the facts about a header where one is due and about reading.

* `MessagesHaveTypes`: the types of `EventQueue`, `DataSocket` and
  `PacketStream` in the instance the run checks, from the invariants above.

Liveness and deadlock are model-checked only.

## Connections

`SocketMultiplexer`. `pc` is where each thread is in `addSocket`/`removeSocket`
or `serviceThread`, `asleep` the condition variable it sleeps on. A sleeper
wakes only when signalled: that POSIX condition variables of `lib/arch` wake
every 100 ms is not relied on. `m_jobListLock` and `m_jobListLockLocked` with
their lockers are the code's; `m_socketJobs` is the list with removed jobs left
as `NoJob` until `Sweep`, `pfds` what was collected for the poll, `unblockPipe`
the byte that ends it, `hot` the sockets with something to do.

`ClientAdmission`. `serverEvents` is the queue; handlers are in the table
(`streamHandler`, `proxyHandler`), because the question is which handler an
event finds once objects have been handed over or deleted. A `ClientProxyUnknown`
is membership in `m_newClients`, with `m_stream`, `m_proxy`, `m_ready` and
its timer. `proxy` says how far a proxy is. Peers connect, answer well or badly
and hang up at any time.

`ClientConnection`. `conn` is the stage of the client's stream, `target` the
address it is for; the `ClientApp` keeps `m_currentServerIndex`,
`m_lastServerAddressIndex` and the restart timer. `troubles` bounds what can go
wrong without the network's being at fault: hang-ups, refusals, silences,
suspensions, and names that are not resolved. `Attempt` is `connect` up to the
socket's: the name is looked up each time, and where that or the socket fails the
client posts `clientFailed` at once, with the number of addresses it had or has
got.

| Run | Bounds | Shows |
|---|---|---|
| `connections`, poll | 2 threads, 2 sockets, 3 calls | the list has one owner and does not change under the poll; no wake-up is lost; calls return and ready sockets are served |
| ... admission | 2 peers, plain and TLS | a proxy has one owner, who hears of its end; nobody is forgotten; every handshake ends |
| ... connection | 2 servers with 1 and 2 addresses, any of which may be reachable; 4 troubles | something always wakes the client; it tries every address, and gets to a server that can be reached |
| `admission_sockets` | | disagreement, see below |

Two threads contend for the lock on the lock while the service thread has the
list; three calls add, replace and remove. Two peers put one in the listener's
queue behind another. Fairness: each thread takes its next step, and one that
waits for the lock on the lock gets it if it is free again and again
(`pthread_mutex`, strong); the event loops go on, and timers expire; a server
that can be reached answers. Without strong fairness the service thread could
take the lock on the lock every time: the code does not prevent it, POSIX
mutexes do in practice.

### Proofs

`Threads_proofs` has those of `SocketMultiplexer`, see above.

`Connections_proofs`, about `ClientAdmission` for any number of clients, plain and TLS:
`ProxiesAlwaysHaveOneOwner`. The property speaks of handlers and queued events;
`AdmissionInv` has for each client what makes them fit. It is accepted once, and
there is nothing of it before (`Accepted`); whoever handles its stream is alive
and has not succeeded or failed yet (`Handled`); what its proxy has posted was
posted in this order, once (`Told`); a proxy that lives is the handshake's, the
waiting queue's or the server's, and only one's (`Owned`); and it is under a timer
or about to be seen to (`Minded`). A client waits once, and the server has as many
calls before it as clients wait, which the proof counts with `CallsOfJoined` and
`CallsHandled`: `handleLostInQueue` removes a client from the queue without the
call it came with, so that it is at most, not exactly, as many. `QueueStep` says
what a step does to the queue, `OneStep` reduces a step to the client it is
about, and a lemma per action shows the five parts for that client.

And about `ClientConnection`, for any servers and addresses (each server's name
resolves to one at least, `AddressesAssumption`): `ConnectionTypeCorrect` and
`ClientIsNeverStuck`, the safety parts of `SearchesWell`. `NeverStuck` is not
inductive. `StageInv` adds that at most one event of the stream waits and that it
fits the stage (`OfStage`); that a client that lost its connection was told so
last, so that a `clientConnected` that still waits, and stops the restart timer,
is followed by an event that starts it again; and that there is no connection
while the machine is suspended. `LosingKeeps` is the lemma for every way to lose
a connection; `KeptForApp` says that what `ForApp` leaves in the queue is the
application's (by the least number, as above).

That handshakes end, that every address is tried and that the client gets to a
server is liveness and model-checked only.

## Processes

On Windows a core may be the GUI's own process (desktop mode) or the daemon's
(service mode). `ServiceLink` has what the two programs share: `toDaemon` and
`toGui` are the socket's two directions, `m_pendingCommands` the starts the
daemon's side of the connection has yet to answer, `m_process` the daemon's core,
`strays` the cores an earlier daemon left, `foreground` the GUI's. A second core
finds the local socket taken and ends as a duplicate.

`Watchdog`. The variables are the fields of `MSWindowsWatchdog`; `posted` are the
results a callback has handed to the thread of the IPC server. Its actions are
the requests (`setConfigFile`, `applyWatchdogCommand`, `clearWatchdogCommand`,
all through `setProcessConfig`), the posted half of an answer (`Delivers`), the
states of `mainLoop` (`LoopBegins`, `StartTimeReached`, `Starts`, `StartFails`,
`ProcessIsMissed`, `Stops`), and the end of a core or of the daemon. Each holds
the watchdog's lock in the code, so each is a step. A crash (`Crashes`) leaves
the core behind and forgets all but the persisted config file; `Boots` starts
from that file. A config file is accepted or refused (`validateConfigFile`); a
refused one changes nothing and the GUI is told.

`CoreProcess`. The variables are the fields of `CoreProcess` and
`ServiceStartCoordinator` with the pending single-shot timers (`reconnects`,
`m_retryTimer`), the queued stops (`waitingStops` before the connection,
`postedStops` after), the clients of `checkExistingProcess` (`recoveries`) and
the modal dialogs on the stack (`dialogs`), whose event loop lets every other
handler run before they close. Answers carry the generation they are for. The
actions are the user's (`UserStarts`, `UserStops`, `UserRestarts`,
`ModeChanges`), the slots of sockets, timers and processes under the names of
their signals. `wish` is history: what the user ordered last, or the failure
that he was told of.

| Run | Bounds | Shows |
|---|---|---|
| `processes` | 2 commands; 3 acts in all of the user, failures of processes, ends of the daemon; 4 generations; 1 attempt at recovery | the daemon runs what it was told last and answers every start; what the user ordered last holds; the two agree; a start ends; a command is run in the end |
| `duplicate_stop` | the same | disagreement, see below |

`MaxActs` is one budget for all that comes from outside, since each act resets
the machines to few states; three give an order, what crosses it, and the order
after that. A config file persisted by an earlier session costs one of them.
The code tries five recoveries: with one, the count reaches its limit and starts
again. Retries stop at the fourth generation (`MaxGenerations`), one more than
there are acts. Fairness: the watchdog's loop runs every 100 ms, the fifteen-second timer
of a start fires, and `QProcess` reports that a process has started; nothing
else is assumed, so `StartsEnd` does not depend on the daemon.

### Proofs

`Processes_proofs`, for any commands, budgets and bounds:

* `UserIsAlwaysObeyed`. `CoreInv` adds to `UserIsObeyed` what the numbers mean
  that timers, stops and recoveries carry. A recovery that is still current finds
  nothing running and a user who has not stopped, only one is, and after the last
  attempt it has been asked (`RecoveriesAreWaitedFor`); a stop that no command has
  overtaken is the only one, waits or is posted but not both, and if the process
  state depends on it, the GUI is stopping in service mode (`StopsAreNumbered`).
  Without these a late answer could be taken for a current one. A lemma per
  handler shows that it keeps `CoreInv`; `StartsCore`, `StopsCore` and
  `ServiceStartFails`, which several handlers call, have lemmas of their own.
* `DaemonIsAlwaysConsistent`. `DaemonInv` adds that a daemon that is down is idle
  (`DownIsIdle`), that no core runs while one is about to be started
  (`PendingHasNoCore`), and the types of the requests under way, for which the
  GUI's steps are looked at too.
* `DaemonAlwaysAgrees`. The property relates the two programs only when a start
  or a stop is through, so `AgreementInv` follows both along the socket. For a
  start: the answer the coordinator waits for is the current start's
  (`AwaitsItsOwn`); no stop follows the current config file among the requests,
  none that could be sent is the latest, and once the file's result is on its way,
  or the start has been asked for, the file is persisted and no stop is under
  way at all (`ConfigFileStays`); a start that was not asked for is nowhere on its
  way (`StartsAreAskedFor`); a positive answer to the current start, posted or under
  way, means that the daemon has a command (`CommandStays`). For a stop: as long
  as the GUI rests in service mode there is no command and no start under way, or
  a stop is, behind the last start, or it waits for the connection (`StopsArrive`).
  No request or answer is of a later start than the current one
  (`RequestsAreKnown`), so nothing of a new start can be there when it begins; and a
  connection is lost only with its daemon (`LinkFollowsDaemon`). Requests are
  queues, and lemmas say what adding and taking one does to their order
  (`AppendKeepsOrder`, `TailOrder`). Handlers are shown by what they do to
  agreement: most are quiet, a few leave the state in which the core is served
  with a stop on its way, one starts.

`StartsEnd` and `CommandIsRun` are liveness and model-checked only.

Left out: the start that the GUI tries again by itself at boot, a settings file
that cannot be written, the requests of older versions, log levels and paths, and
the GUI's connection to its own desktop core.

## What the code does not keep

Met while modelling. Five have a run that TLC answers with a trace; the comment
or document that says otherwise is quoted in `PROJECT.json`.

* `key_release`: a pause of input drops the release of a key that was broadcast;
  its record stays, and swallows the next release of that key although its press
  went to the active screen (`Server::onKeyUp`).
* `one_input_owner`: a controller whose request is accepted activates the
  session though it has come under another's control since
  (`SessionController::receive`).
* `admission_sockets`: a client that leaves while it waits for the server has its
  packet filter cast to a socket and deleted a second time
  (`ClientListener::handleClientDisconnected`).
* `sockets_deadlock`: `SecureSocket::freeSSL` waits for the list of jobs with the
  TLS lock held, which the poll thread may be waiting for with the list held.
* `duplicate_stop`: a desktop core that ends as a duplicate after the user has
  stopped it starts the recovery all the same, which starts the core again
  (`CoreProcess::onProcessFinished`).

Others follow from the same models, as traces of properties stated more broadly
than the runs check them:

* `ScreenSwitch`: with a switch delay, a pending switch keeps its target after
  the target's proxy is closed, unless it was the active screen; with input
  during the screen saver, a client entered then stays active after it has gone
  (`forceLeaveClient`, both). The timer and hot keys leave the primary during an
  input pause.
* `ClipboardShare`: with copies in the background or in a hurry, data are accepted
  of a client that is not the owner, which `onClipboardChanged` asserts does not
  happen (`ExpectedClientInFocus` without `InFocus`): those of one that lost the
  ownership to a copy with the same sequence number; of one that lost its
  connection while it had the cursor and copies something before it is entered
  again, so that its grab has the number 0 and is old, while its data, sent when
  the cursor leaves it, are not; of an owner whose next copy goes unnoticed while
  the grab of another is queued. The
  primary that becomes active because the active client was lost is not given
  the clipboard. A client that lost its connection while it had the cursor
  believes, after the next one, that it has it still.
* `FileTransfer`: two services that offer to each other at once wait for ever; a
  session whose other end has disconnected stays; an offer to a computer whose
  licence has ended gets no answer.
* `KeyRelay`: a client that loses its connection while not entered keeps a
  broadcast key down (`Screen::disable`). A press that became an input language
  control swallows the release of the next press of the same key if its own was
  dropped in a pause.
* `ServerLife`: a quit handled in the nested loop of `closeServer` ends only that
  loop; a resume handled there is ignored, so that an awake machine is left
  without a server; a second suspend handled there closes and deletes the server
  twice. A client that goes just before a suspend leaves a `ServerDisconnected`
  behind, so that one `Quit` too many ends the application later. A start that
  fails after a resume is not tried again, though `ServerApp.cpp:651-653` says
  that a timer will: nothing sets `m_timer`.
* `InputSessions`: two requests of the same kind that cross are each ignored by
  the other side and last their sixty seconds.
* `DataSocket`: after a fatal TLS error the job is dropped and `m_flushed` stays
  false, so a flush waits for ever.
* `DataSocket` and `PacketStream`: bytes read in the run that meets a TLS
  `close_notify` or a fatal error are not announced, so a server may not see the
  last packets of a client that sends them and closes; and the client, which
  closes on `SocketDisconnected`, does so before packets that are there to be
  read. A server is not told of a connection that fails (`ConnectionBreaks`):
  `ClientProxy` hears nothing until heartbeats are missed. The runs check what is
  announced, and theorems say the rest of a stream that was not cut.
* `PacketStream`: a stream that ends within a packet is reported to the client as
  a format error only, which it does not listen for.
* `CoreProcess`: "Retry" in the dialog that the daemon is offline always fails
  the start it is about, because the failure is handled after the dialog has
  reconnected; "Ignore" during a stop leaves the GUI stopping until the daemon is
  back. A stop that is lost with the daemon lets the next daemon run the
  persisted config file.
* `Watchdog`: the cores it ends before a start include the GUI's desktop core.

And by reading, outside the models: a client that times out in the handshake
after its proxy was made leaves its socket open until the listener stops, and so
does every client that was served; an adopted proxy that is already gone has its
heartbeat set again; TLS input beyond the buffer's limit is not announced by any
poll.

## Plan

In order of importance.

| Module | Of | Properties | Proof |
|---|---|---|---|
| `Ipc` | core and daemon IPC | greeting before commands; every subscriber gets every state | |
| `ClipboardChunks` | `ClipboardChunk`, `StreamChunker` | what is assembled is one clipboard, whole | |
| `Edges` | `Config` links, `EdgeHandoffDecision`, `CursorTransform` | operators against a reference definition | interval lemmas |
| `Listening` | `TCPListenSocket`, connecting and TLS handshakes | a listener goes on listening | |

Every safety property that a run checks is proved: each of the runs' invariants,
and each of the other properties that is not liveness. What no theorem states is
liveness under fairness, and that the system does not stop where it may not:
these stay with TLC.

## Not modelled, and why

Key maps, input language, platform screens and the platform layer are calls of
the window system and tables; the graphical interface's own state is the
settings; settings, networks and signatures of licences are storage, other
programs and cryptography; strings, logs and message codecs are pure
conversions that unit tests cover. These make up most of the repository: of some
120 000 lines of implementation, the graphical interface, the platforms and the
tables of the protocol and of keys are four fifths, so that the models, which
cover the core's control, name a small share of all lines. Within the modelled
parts: coordinates, the layout of screens, message encodings, clipboard formats
and sizes, digests and file names are abstracted as each module's first comment
says.
