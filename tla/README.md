# A verification development of GraphConductFrame

GraphConductFrame streams pictures from cameras to viewers. Clients (a C++
camera program, Python scripts, an Electron viewer) connect by WebSocket to a
C++ server under a name (`ws://host:9106/?Alias=XXXX`), tell the server by a text
command to whom their frames shall go (`?SysSetMethod=ImgRetransmission&
FromAlisa=x&ToAlisa=y,z`), and send frames, which the server forwards. The server
is the heart of the system: several threads over shared state. This development
covers the server, the main window of the viewer, the WebSocket library's
connection under the C++ programs, and the clients that send.

All paths below are relative to the repository (`src/`).

## 1. Inventory

| Component | State | Operations | Talks to |
|---|---|---|---|
| **websocketpp connection** (`websocketpp/`, vendored, changed in places) | at each end: session state, queue, frame being written, write flag, handshake timers | opening handshake, `send` from any thread, `close`, closing handshake, write and read callbacks, time-outs, terminate | calls the program's handlers on its one network thread |
| **`metaConnection`** (`ServerTest/metaConnection.hpp`) | `m_status`, `m_method`, frame pool, links `m_toMetaCon`, waiting names `m_needConnectAlias`, `m_lock`, a worker thread and its end label | the setters and getters, `SendTo`, `SentBinary`, `feedFrame`, `getFrame`, `replaceMetaCon`, the worker loop, `stop` and the destructor | `SentBinary` of other objects, `send()` |
| **`ControlModule`** (`ServerTest/ServerEndPoint.hpp:9-166`) | `m_alias2con`, `m_hdl2con`, a recursive `m_lock`, the maintenance thread | `AddConnection`, `clearCon`, the two queries, the maintenance loop (heal links, add waiting links) | objects |
| **`ServerEndPoint`** (`ServerTest/ServerEndPoint.hpp:168-334`) | none of its own | `on_open`, `on_message`, `sysMessageconduct`, `on_close`, `on_validate`, `run` | all of the above, on the network thread |
| `utility` (`utility/utility.hpp`) | none | `getKeyValuePair`; `IdNumDeliverMachine` (called by nobody) | `on_open`, `sysMessageconduct` |
| Main window (`BrowserFrameWork/mainFrame/mainFrame.js`) | the table of viewers, each with a socket; the layout | connect, reconnect on a layout change, close, receive a frame | the server, the other windows through the main process |
| Main process, parameter and layout windows (`BrowserFrameWork/app.js`, ...) | window references | relay of IPC messages, forms | main window |
| Camera client (`cppClient/main.cpp`) | the buffer of pictures (at most 100 stay), the one picture the sender holds, `con` | decode callback, sender thread, main thread, message handler | the server through websocketpp, the camera SDK |
| Python clients (`pythonclient/`) | none but where the script is | connect, greeting, command, reply, frames; or receive and send back | the server |
| Demo table (`BrowserFrameWork/assembly/`) | - | presentation | - |

**What is hard.** The server runs one network thread (all handlers, one after
the other), one maintenance thread that never stops polling, and one worker per
connection that was admitted. They share the two maps (one recursive mutex) and
the objects (one plain mutex each); handlers are sequences of short critical
sections, so that every other thread may run between two of them. In particular:

- `AddConnection` is `clearCon` and an insertion, in separate critical sections.
- A client that comes back is a new connection with an old name; the old
  connection may not have closed yet, or be marked closed before its close
  handler runs (a `send` that fails while it is closing marks it).
- The maintenance thread works on copies of links and waiting names while
  commands append to the originals.
- Destructors run wherever the last `shared_ptr` goes, under the lock of the
  maps, and join a worker that may be waiting for another object's lock.
- A worker holds its own mutex while it takes those of its targets, and
  `feedFrame` calls `SendTo` under the mutex that `SendTo` locks again.
- In the main window every handler runs to its end, but a viewer has one field
  `entity` for all the sockets it has ever opened: callbacks of an old socket act
  on whatever is there by then, and an overwritten socket is out of reach.
- In websocketpp `send()` looks at the state under one lock and pushes under
  another; the network thread can begin to close, or end, the connection in
  between. One flag says that a write is outstanding, and it is read by every
  thread that sends. Timers that were cancelled too late still run. Both ends
  may start to close at once, and either may be gone while the other writes.
- The camera's sender takes pictures from the back of a buffer which the decoder
  fills, from before the connection is open until after it is lost.
- Names are put into the texts of the protocol as a user types them.

`PROJECT.json` lists each of these hazards at its line with the properties
that would catch it.

**What makes each component correct.**

- *ControlModule*: the maps agree; a name has one owner, keeps it while that is
  connected, and can be taken again afterwards; an admitted connection is not lost.
- *metaConnection*: frames leave in the order they came, each at most once, only
  to targets asked for; nothing that is still referenced is destroyed; the pool
  is drained.
- *Maintenance*: no request for a target is forgotten; a link to a client that
  left moves to its successor.
- *ServerEndPoint*: no handler blocks; the branches taken for impossible are.
- *Main window*: no connection is left open that nobody can close; disconnect and
  a layout change stop what they should; a greeting is answered on its own
  connection; viewers that are kept are connected again after a layout change.
- *A connection*: each program has its handlers called in order and is told the
  end once; what was accepted arrives in order with nothing left out, up to where
  the connection ends; no handshake lasts for ever.
- *Clients*: no picture is dropped while it is the newest, none is sent twice,
  the newest is handed on; scripts send no picture before their command; names are read as
  they were meant.

## 2. Modules

In each of the four groups, server, main window, connection and clients, a module
EXTENDS the one before it; every variable has the name it has in the code where
there is one.

| Module | Lines of the code | What it holds |
|---|---|---|
| `Transport` | websocketpp's `connection_impl.hpp` | the server's view of its connections: `conn` (session state), `outbox` (what `send` accepted) |
| `MetaConnection` | `metaConnection.hpp` | the objects: their fields, their mutex, their life and their worker |
| `ControlModule` | `ServerEndPoint.hpp:9-166` | the maps and the maintenance thread |
| `ServerEndPoint` | `ServerEndPoint.hpp:168-334`, `server_main.cpp` | the handlers, what clients send, `Next`, `Spec` |
| `AliasRegistry` | - | abstract: who owns a name |
| `Relay` | - | abstract: which frames a client receives |
| `ServerProperties`, `MCServer` | - | everything that is checked, `FairSpec`; the small instances |
| `ServerInvariant`; `ServerProofs`, `ServerLifeProofs`, `ServerWaitProofs`, `ServerRelayProofs` | - | the inductive invariants; the proofs |
| `Viewers` | `mainFrame.js`, `app.js:132-173` | the main window, the user, the sockets, composed with `AliasRegistry` as the server |
| `ViewerProperties`, `MCViewers` | - | what is checked of it; a small instance |
| `ViewerProofs` | - | the invariant and the proofs |
| `Link` | - | abstract: what a connection promises to the two programs |
| `WsConnection` | websocketpp's `connection_impl.hpp` | the two ends of one connection |
| `WsProperties`, `MCWs` | - | what is checked of it, `FairSpec`; a small instance |
| `WsInvariant`; `WsProofs` | - | the inductive invariant; the proofs |
| `KeyValue` | `utility.hpp:8-84` | `getKeyValuePair`, and the texts clients put together |
| `ServerEnd` | `ServerEndPoint.hpp` | the server as one client meets it, over `Link` |
| `CameraClient` | `cppClient/main.cpp` | the camera client over `Link` |
| `PythonClient` | `pythonclient/client_send_pic.py` | the scripts over `Link` |
| `Clients`, `ClientProperties`, `MCClients` | - | one of the two and the server; what is checked; a small instance |
| `ClientInvariant`; `TextProofs`, `ClientProofs` | - | the inductive invariant; the proofs, those about the texts first |

The layers meet in abstract specifications: `WsConnection` implements `Link`, and
the clients stand on `Link`; the server implements `AliasRegistry` and `Relay`, and
the main window is composed with `AliasRegistry`.

### How state and actions correspond to the code

*One critical section is one step.* A section that touches only its own object
(`SetMethod`, `getStatus`, `getFrame`...) needs that object's `m_lock` free and is
atomic. A mutex held while another is taken is held across steps, in `m_lock`
and `ctl_lock`: the worker's forwarding loop, `replaceMetaCon`, `feedFrame`
around its nested `SendTo`, `clearCon`, and the whole pass of the maintenance
thread. Reads of fields that never change after publication are merged with the
step beside them (`getName` and `getHdl` with `getStatus`: `setName` is called
before another thread can reach the object); the unlock at the end of the
forwarding loop is merged with the last send, after which the worker does
nothing before it unlocks.

*Program counters.* `n_pc` is the network thread's place in its handler
(`open.*`: `on_open` with `AddConnection` and `clearCon`; `cmd.*`:
`sysMessageconduct`; `feed.*`: the rest of `on_message` with `feedFrame`;
`close.*`: `on_close`), `c_pc` the maintenance thread's, `w_pc[h]` that of the
worker of object h. Local variables are reset when they go out of scope, so that
equal states are equal.

*Connections* are never reused: a client that reconnects is a new handle with
the same `UriAlias`. The session states are those of websocketpp that
`send()` and the close handler can tell apart. While a connection is closing
`send()` already fails: that window is what makes `m_status` run ahead of
`on_close`. The end of a connection and its close handler are one callback of the
network thread. How a connection behaves below that is `WsConnection`.

*Lifetime.* An object is live as long as a map, a link or the maintenance
thread's copy refers to it (`Referenced`); then its destructor raises the end
label, joins the worker, and drops its own links, all in the critical section
where the last reference went. The shared pointers that handlers hold are
covered by the maps, since only the network thread changes these. Since the end
label is a plain `bool`, the worker may see it late: `EndWorker` is enabled, not
forced.

*Undefined behaviour.* Locking a `std::mutex` twice in one thread is undefined;
`Relock` names the outcomes allowed: `"blocks"` (glibc, MSVC with a debug check
off), `"throws"` (`std::system_error`; uncaught, it ends the process) and
`"reenters"` (implementations over a recursive section). Clearing a map inside a
range-for over it (`clearCon("undefined")`) may end the loop or the process. After
a `fault` nothing runs any more.

*Data.* Names are elements of a small set; a frame is its producer and its
number; a command is its method, the keys of its two fields and a list of names.
`m_needConnectAlias` (which has no duplicates) and the iteration orders of the
maps are sets: any order is allowed.

*Bounds.* `MaxCmds`, `MaxFrames` and, for both together, `MaxSent` bound what each
client sends;
`FRAMEPOOLMAXSIZE` is 1000 in the code and 1 or 2 in the runs: below the number of
frames where the overflow is to be reached (`relay`, `overflow`). Nothing else is bounded.

`FollowsFlow` names the clients that keep the order the server documents
(connect, wait for `?SysConnectInit=Got`, send the command, wait for OK, send
frames); the others send at any time, which the camera client and a user with a
browser console can do.

### The main window

`Viewers` has one action per handler: the parameter windows' connect and
disconnect, the click that makes such a window (they outlive their image), the
two layout handlers, and the events of a socket. `wsCloseAll`, the dropping of
viewers without image and the reconnection of the others are one step, as they
are one handler; when the row to divide does not exist the handler throws after
`wsCloseAll`, which is an action of its own (`DivideMissingRow`).

A viewer (`WSObj`) and a socket are elements of `Obj` and `Sock`, named beforehand
(`IdOf`, `ObjOf`) and used once; how many there are bounds a run. A viewer that was
dropped from `showObjs` lives on in the callbacks of its sockets, with its
`entity`: this is why `entity` belongs to viewers and `showObjs` to ids.

The sockets are those of `ws` 7.4.6 (external): `close()` on a connecting socket
aborts it and reports an error at once, `onmessage` still runs while a socket is
closing, `send` on a closed socket is dropped and on a connecting one throws. When
a callback throws, what it had not done by then is left out. `CLOSED` here
includes a socket that will receive nothing any more and has only to be torn
down.

The server is `AliasRegistry` itself, the specification the server was shown
to implement: a connection arrives, claims its name or is refused because the
name has an owner, and leaves; a name is released when its owner has gone. The
composition is coarser than the server (a name may be released at any time after
its owner left, not only in the next `clearCon`), so what holds here holds of the
pair. The counterexamples of `stray` and `kept` use no such early release.

`ConnectsOnce` says that the user presses connect only when no connection is open
under that id. Where it is `TRUE` the properties hold; `stray` shows what
happens otherwise.

### The connection

`WsConnection` is one connection with both its ends, each of which runs
websocketpp. Each callback of an end's `io_service` (a write or a read that is done,
`write_frame` as it was posted, a timer) is one step: the network thread runs them
one after the other. `send()` from another thread is two steps, as it has two
critical sections: `SendCheck` finds the state open and puts the message in
`held`, `SendPush` puts it in the queue, whatever the state is by then. A handler
may send as well; there nothing comes in between.

`posted` counts the callbacks of `write_frame` on their way, `m_current_msgs` is the
frame being written, `written` says that the transport has taken it while its
callback is still to come, and `wire` is what was written and not yet read, after
which a closed end's stream ends. `m_write_flag` is the library's; this fork's
`write_frame` takes one frame at a time. `broken` is a transport that fails, at any
time. A timer that has expired before it was cancelled is in `expired`; its
callback comes. The close frame marked terminal is `"bye"` (only a server's
acknowledgement is), the others are `"close"`. `terminate` and its close or fail
handler are one step, as a plain socket shuts down without waiting.

`accepted`, `calls` (of `Link`) and `pushed` are history: what each program sent,
which handlers it had called, and what ever came into its queue.

### The clients

A behaviour of `Clients` is one run of one program, the camera or a script, with
the server at the other end of one `Link`. `ServerEnd` has of the server what one
client can see: it is greeted or refused, its command is answered, its pictures
are taken. A picture may be the last thing its network thread ever sees (`"stuck"`):
before the command it makes `feedFrame` lock a mutex twice (`metaConnection.hpp:111`),
afterwards it does so when the pool is full (`114-118`), and where a client has asked
for its own name its worker holds the mutex for ever (`44-51`). The details of this
are in the server's modules. What other clients have forwarded to it is left out.

The camera's threads are its main thread (`con` made, sender started, `run`, and
after it), the library's thread that decodes (`Decode`) and the sender (`SenderTake`
and `SenderSend`: the critical section, and `con->send` after it, whose result is
not looked at). `MaxBuf` is 100 in the code and 1 in the run. A script is
sequential: `py_pc` is its place between two calls of its library.

Texts are sequences of symbols, where a key is one symbol and so is each mark
(`,` `&` `=` `?`). The source cuts its text shorter and shorter; `inner_div` and
`getKeyValuePair` are functions of the place where the rest begins, the loop being
the recursion from one place to a later one. `out[key] = ...` replaces, so the last
of two equal keys counts (`Pair`). `Uri` and `Command` are what the clients put
together from what was typed.

## 3. Runs

The runs of the server are on `MCServer` with up to three connections: `a1` under the name A, `b1` and
its second life `b2` under the name B. That is the least in which a name changes
hands while another object links to it; commands and frames are sent by `a1`
(in `mutual` by both). Those of the main window are on `MCViewers`: a grid of one
row and two columns, in which the second image comes and goes, and a viewer for
it in two lives, the first with two sockets (the least with which an old and a
new socket, and an old and a new viewer, of one id meet).

`ws` has one message for each end, so that a message meets every handshake, close
frame, time-out and failure of either end; both ends may close. With two messages
for one end it is 3.9 million states and shows nothing more; the order of any
number of messages is proved. `clients` has four pictures and keeps one: the buffer
is dropped with one picture in the sender's hand, and fills again. Names have up to
two symbols, any of the marks among them, which puts each mark at the beginning,
at the end and beside each other.

| Run | Properties | What it shows |
|---|---|---|
| `registry` | `TypeOK`, `RegistryConsistent`, `UnreachableBranches`, `NoDangling`, `RequestKept`, `NoCircularWait`, `OpenStaysRegistered`, `RegistrySpec` | two commands, or a command and a frame, of A at any time, while B leaves and comes back, whatever a relock does |
| `relay` | `RelaySpec`, `NoDangling` | A links to itself and to B, and sends three frames where the pool holds two: frames reach only those asked for, in order, at most once, through waiting and healing of links, and the overflow with the frames it drops, whatever the relock does; objects that link to themselves are not destroyed too early |
| `live` | `HandlerReturns`, `LinkHealed`, `NeedResolved`, `PoolDrained` | with links that form no cycle and clients that follow the flow and stay within the pool, every thread gets on |
| `viewers` | `TypeOK`, `NoStray`, `GreetingAnswered`, `StopsAll`, `ErrorFindsEntity` | with `ConnectsOnce`: connect, disconnect, layout changes, off-screen viewers, late messages, failures and refusals in any order leave no socket behind |
| `ws` | `TypeOK`, `WriteScheduled`, `NothingLost`, `ImplementsLink`, `ClosedAfterAll`, `HandshakesEnd` | sends of other threads, either or both ends closing, timers and a network that breaks, at any time: nothing is lost or overtaken on the way to an open end, each program is told once, no handshake lasts for ever |
| `clients` | `TypeOK`, `DropsOldest`, `SentOnce`, `FlowFollowed`, `TypedRead`, `NewestSent` | what the camera drops is old, nothing is sent twice, no picture of a script comes before its command whatever breaks, typed names are read as meant, the newest picture is handed on |

`registry` needs `MaxCmds = 2` (a repeated command meets the maintenance thread
between `addMetaCon` and `rmNeedConnectAlias`); `relay` needs a pool of two
for an order, a third frame for the overflow (which is then passed on after the
warning, where the relock lets the thread go on), and one command: a repeated
command makes two links to one target, which then receives frames twice (what
`twice` is about). Deadlock is checked
where it says something: not in `registry`, `relay`, `null_reply`, `overflow` and
`mutual`, where a fault or a blocked mutex really stops the system, nor in `ws` and
`clients`, where the connection is over at the end. In the others the
maintenance thread polls for ever, or the user goes on.

### Disagreements between code and documentation

Each has a run of its own that finds the counterexample:

| Run | Property | The code |
|---|---|---|
| `null_reply` | `UnreachableBranches` | "cannot get here": after a client named `undefined` has made `clearCon` empty both maps, a command of an open connection is answered through a null pointer |
| `overflow` | `HandlerReturns` | a full pool makes `feedFrame` lock its mutex twice |
| `mutual` | `HandlerReturns` | two clients that forward to each other deadlock their workers, then the network thread |
| `twice` | `LinkHealed` | a name listed twice makes two links; only the first is ever healed |
| `stray` | `StopsAll` | connect pressed twice: the first socket is overwritten in `entity` and stays open through layout changes and disconnect, holding the name |
| `kept` | `KeptReconnect` | a layout change reopens a viewer before the server has seen the old connection close; the new one is refused and nobody retries |

Seen and not given a run:

- The documented keys are `FromAlias` and `ToAlias` (`server_main.cpp:8`); the code
  wants `FromAlisa` and `ToAlisa` (`ServerEndPoint.hpp:299`), which all clients
  send; with the documented ones it answers OK and drops the names. The reply is
  `?SysSetMethod:OK`, where `server_main.cpp:10` documents `?SysSetMethodEcho:xx`.
- OK is answered for methods the server does not know (`server_main.cpp:10` says it
  means the method is set).
- A connection is registered before it is greeted (`ServerEndPoint.hpp:209-218`), so
  that a forwarded frame may come first, where scripts expect the greeting.
- `clearCon()` sweeps open connections with the closed ones (part of `null_reply`).
- The camera sends pictures before its greeting is answered; the server then locks
  a mutex twice. `FlowFollowed` says that scripts do not send so early; after their
  command they block it as well, with a full pool (run `overflow`) or by their own name.
- The camera's sender takes the newest picture first, so that pictures may arrive
  in the reverse of the order they were taken in.
- The camera's sender thread never ends and is not joined: where `main` returns, the
  program aborts. The header it builds for a picture is not sent; its last word
  is overwritten by the row (`cppClient/main.cpp:57`).
- An `&` at the end of a typed name becomes part of the next key, and the server
  finds no targets. An empty target list is one target with an empty name.

### Fairness

`FairSpec` adds what the scheduling gives. Every loop of the program polls and
yields, so a thread that can run does run: weak fairness for the maintenance
thread and for each worker. The network thread waits for mutexes which the
other threads take and release over and over: a mutex gives no order, but each
of these threads yields between release and the next acquisition, so a waiter
that finds the mutex free again and again gets it: strong fairness for the
handlers, and for nothing else. The outside (`Outside`) is not fair: clients may
never send, close or come back. `HandlerReturns` is false without the strong
fairness, and says the joins under the lock of the maps do end.

For a connection (`WsProperties`) each end's `io_service` does not stay idle while
a callback is ready, and timers expire. Nothing is assumed of the network, of the
peer's frames or of the programs: it is the timers that end a handshake.
For the camera (`ClientProperties`) its main thread and its polling sender run;
nothing is assumed of the camera, the network or the server.

## 4. Proofs

TLAPS proves for all values of the constants (any sets of connections and names,
any commands, any number of frames, any `Relock`), from the assumptions the
server's modules state (`HdlAssumption`, `AliasAssumption`, `NoConAssumption`,
`TextsAssumption`, `PoolAssumption`, `BoundAssumption`). Of the server:

| Theorem | Says |
|---|---|
| `TypeCorrect` | `Spec => []TypeOK` |
| `RegistryAgrees` | `Spec => []RegistryConsistent` |
| `OpenStays` | where nobody is called "undefined": `Spec => OpenStaysRegistered` |
| `BranchesUnreached` | likewise: `Spec => []UnreachableBranches` |
| `NamesChangeHands` | likewise: `Spec => RegistrySpec`, the server implements `AliasRegistry` |
| `NothingDangles` | `Spec => []NoDangling` |
| `RequestsKept` | where the clients send the keys the code looks for: `Spec => []RequestKept` |
| `NobodyWaitsInACircle` | where what commands ask for has no cycle: `Spec => []NoCircularWait` |
| `FramesRelayed` | `Spec /\ AsksOnce => RelaySpec`, the server implements `Relay` |
| `OneCommandRelayed` | where a client sends at most one command, without a name twice: `Spec => RelaySpec` |

`NobodyNameless` is needed: `null_reply` shows what happens otherwise. So is
`KeysAsCoded` for `RequestsKept`: under the documented keys the names are dropped
(section 3). `RequestsAcyclic` (names can be ranked so that each client asks for names
below its own) is what `mutual` lacks: two clients that ask for each other do
wait in a circle. And so is `AsksOnce` (no client asks for a name a second time) for
`RelaySpec`: a name asked for twice gives two links to one object, which then
receives each frame twice (run `twice`). The clients of the repository send one
command a connection; `OneCommandRelayed` is the case the run `relay` checks.

*The argument.* `RegistryConsistent` is not inductive: `clearCon` erases the handle
of the object found by name and the name it runs for, which keeps the maps in
step only if the object it looks at is the owner of that name, and
`AddConnection` may insert only a handle that has no other name. `IInv` adds what
the threads rely on:

- `LockInv`: the lock of the maps is held by the maintenance thread in all of a
  pass and by the network thread in all of `clearCon`, and by nobody else. So a
  name that was found stays known (`NameInv`), which is what makes a link an object.
- `StatusInv`: an object in the maps has a connection, and is marked closed only
  if that is past being open (a mark follows a refused `send` or the close
  handler). So whatever `clearCon` evicts has gone.
- `HandlerInv`: while `on_open` runs, its connection is open and not in the maps.
- `LeftInv`: what `clearCon` looks at for a name is the owner of the name.
- `RestInv`: a command that is about a name has one left.

`Init => IInv` and `IInv /\ [Next]_vars => IInv'` go thread by thread:
a worker can only mark objects (`WorkerMarks`), the maintenance thread changes
neither maps nor marks (`MaintainFrame`), the outside only moves a connection on;
of the handlers, all but those of `on_open` fall under one lemma (`QuietStep`).
The types come first in `ServerProofs`, one step per action and component.

For the three theorems about names, `ClearedOwner`, `AddedOwner` and
`OutsideFrame` say all that can happen to the maps and the connections;
`BranchesUnreached` needs `NamedInv` besides: an open connection is in the maps
unless a handler is about to put it there, and a handler that serves a
connection finds it.

For `NoDangling`, `LifeInv` adds why nobody loses the object in his hands. `VisitInv`
and `WorkInv`: the maintenance thread holds the lock of the maps as long as it
visits an object, and only the network thread, which is busy with its own,
takes objects out of the maps; so what they work on stays reachable. `HeldInv`:
a mutex of an object that is not free is held by a thread that is at a place where
it holds it, on an object of the maps or its own. `ReachedLive`, `FreedDone`: what is reached
is live, and an object is freed after its worker has ended. The step of interest is
the destructor's (`Destroyed`): it takes links away, never adds any, and only
what nothing else reaches.

`RequestInv` follows a name from the command on: `Remembered` says it is still in the
list, or waits, or is linked. The one step that forgets a waiting name is
`rmNeedConnectAlias`, and `LinkedInv` says the link is there by then; healing a
link puts an object of the same name in its place (`LinkReplaced`); a connection
that has just entered the maps has asked for nothing (`FreshInv`).

`NoCircularWait` is about any set of threads, the workers of any number of
objects included, each of which waits for one of the set: for who holds a mutex, for
who holds the lock of the maps, or in a destructor for a worker. `FlowInv` adds to
`LifeInv` what this and `RelaySpec` need, and holds whatever clients ask for:

- `HoldsInv`: a worker that forwards, `replaceMetaCon` and `feedFrame` hold the mutex of
  their object, so links and pool do not change under them.
- `AskedInv`: what a client has asked for is in a command it may send; names of
  links, waiting names, those left of a command and those the maintenance thread has a
  copy of have all been asked for. So a frame goes only where its producer's client
  wanted it, and links lead to lower ranks (`LinksDescend`).

So no object has a link to itself, and neither a worker nor the maintenance
thread ever asks for a mutex it holds (`NeverCaught`; with `FlowInv` this is
`WaitInv`, the inductive invariant). For the circle: whoever waits in it waits,
directly or by way of others, for a thread inside the critical section of an object
(`SomebodyInside`: who has the lock of the maps waits for objects and workers only, and
workers for objects only); who is inside waits for a target of lower rank, whose holder is
inside as well (`FurtherDown`); and ranks do not go down for ever (`NoCircle`). The
network thread is exempt where it has locked a mutex twice (run `overflow`).

For `RelaySpec`, `RelayInv` adds to `FlowInv` where names and frames are.

- `OnceInv`: a name asked for is in one of these places, and no two links have the
  same name; for a moment, between `addMetaCon` and `rmNeedConnectAlias`, a name
  waits and is linked. Healing keeps this, as a successor has the same name.
- `PoolInv`: the frames of a client go up in number from the worker's through the
  pool to the one being fed, an emptied pool included.
- `SentInv`: whatever a client was sent of another is older than the worker's
  frame, or is that frame and the worker is past all links to this client.

So the next frame a worker sends over a link is newer than all that client has had
of it, which is `PassOn` of `Relay` (`Fresh`); an acceptance refused by a closing
connection, a greeting, a reply and a warning are stutters.

*The main window* (`ViewerProofs`), for every grid, any viewers and sockets
(`ViewersAssumption`):

| Theorem | Says |
|---|---|
| `TypeCorrect` | `Spec => []TypeOK` |
| `NothingStrays` | with `ConnectsOnce`: `Spec => []NoStray` |
| `EverythingStops` | with `ConnectsOnce`: `Spec => StopsAll` |
| `EveryGreetingAnswered` | with `ConnectsOnce`: `Spec => []GreetingAnswered` |
| `ErrorsFindEntity` | with `ConnectsOnce`: `Spec => ErrorFindsEntity` |

`VInv` adds to `NoStray` that viewers hold their own sockets, that the map has each
viewer under its own id, and that a greeting is seen only on a socket that has
opened. Steps fall under two lemmas: those that start nothing (`EndingStep`) and
those that open sockets (`StartingStep`), where the closed states come from
`AllEnded`: because nothing is stray, `wsCloseAll` reaches everything.

*The connection* (`WsProofs`), for any messages
and any sends of other threads (`MsgAssumption`, `PayloadAssumption`,
`ClosersAssumption`):

| Theorem | Says |
|---|---|
| `TypeCorrect` | `Spec => []TypeOK` |
| `Scheduled` | `Spec => []WriteScheduled` |
| `Invariant` | `Spec => []ConnectionInv` |
| `Delivery` | `Spec => []NothingLost` |
| `ClosesLast` | `Spec => ClosedAfterAll` |
| `Implementation` | `Spec => ImplementsLink`, a connection implements `Link` |

Types and `WriteScheduled` need each other and little else. For the rest,
`ConnectionInv` (`WsInvariant`) adds three things. `StateInv`: how the state of an
end goes with the last call of its handlers and with its queue, so that an end
is told once. `Carried`: what an end has pushed is what its peer was given, what
is under way, and a rest, which is the frame being written and the queue as long
as the end is not closed. `Agrees`: up to the first close frame, what was pushed
is what `send()` accepted. So the next message the peer is given is the next that
was accepted (`ImplementsLink`), and a close frame is read only after everything
before it (`ClosedAfterAll`). The steps are sorted by what they do to this flow:
those that push, those that read, and `Transmit`, which alone moves a frame from
the rest to the wire.

*The clients* (`TextProofs`, `ClientProofs`), for any pictures, any length of the buffer
and anything typed (`PictureAssumption`, `MaxBufAssumption`, `MsgAssumption`,
`TypedAssumption`):

| Theorem | Says |
|---|---|
| `ClientsInvariant` | `Spec => []ClientInv` |
| `ClientsTyped` | `Spec => []TypeOK` |
| `NewestKept` | `Spec => []DropsOldest` |
| `GivenOnce` | `Spec => []SentOnce` |
| `CommandComesFirst` | `Spec => []FlowFollowed` |
| `TextsRead` | `Spec => []TypedRead` |

`ClientInv` (`ClientInvariant`) follows a picture. `BufferInv`: each picture taken is
in one place at most, the buffer, the sender's hand or handed over, and the buffer
is in the order of taking; with `DropsOldest` itself this is inductive. `AcceptedInv`:
what the connection has accepted is different pictures, each handed over or sent
by the script. `CallsInv`: the server's handlers are called with the start, then
with what was accepted, in order, then perhaps with the end. So no picture comes twice
(`SentOnce`). `ScriptInv`: a script's first message is its command, so every picture
is behind it (`FlowFollowed`).

`ReadInv` says that the server remembers what `getKeyValuePair` gave it, and what that
is on texts of any length is proved in `TextProofs`. `find` returns the first place or none
(`FindIs`). `inner_div` and `getKeyValuePair` exist as the functions their definitions
say (`InnerDivDef`, `PairsDef`, both from `FromTheEnd`: a function in which each place
refers to a later one), and `inner_div` cuts at every comma and nowhere else
(`DividedAtCommas`); then the pairs of an address and of a command are followed place
by place (`UriRead`, `CommandRead`). The inductions are over a set of naturals
(`SetInduction`, from the library's well-foundedness of `<`), which the provers can
instantiate where they cannot take an operator. `Symbol` is `STRING` with the camera's
two names added: the provers do not take a literal for a string.

*Only model-checked:* the liveness properties (`HandlerReturns`, `LinkHealed`,
`NeedResolved`, `PoolDrained`, `HandshakesEnd`, `NewestSent`), which are out of the prover's
reach. Every safety property and every refinement the passing runs check is also a
theorem, under the hypotheses named above.

## 5. Not modelled

Of the server: the destructors of `ControlModule` and `ServerEndPoint` (`main` never
leaves `run`), `aliasInNeedConnectAlias` (called by nobody), `on_validate`
(constant). Of websocketpp: pings and pongs, HTTP errors, subprotocols, fragments,
pausing and interrupts, which no program here uses, the coding of frames, logging.
asio and the camera's SDK are vendored and outside.
Of the clients: the loop of `client_rec_send_demo.py`, which sends back what it
receives; the contents of pictures and the camera's header, which is not sent.
Of the windows: what is drawn and reported; that a parameter window has no
id before `wsWin:IDSet` has reached it; the forms of the parameter and layout
windows, which only send what the user's actions of `Viewers` stand for; the
demo table, which is presentation. `IdNumDeliverMachine` is called by nobody: there
is no behaviour of the system in it.

## 6. Plan

Done: the server with its two abstract specifications, both of which it is proved to
implement, and the proofs about its registry, its objects, its requests and its locks; the
main window and its proofs; the connection, its abstract specification and
proofs; the clients and their proofs. Next, in this order:

1. The loop of `client_rec_send_demo.py`, as a client that both sends and receives.
