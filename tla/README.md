# Neuralis in TLA+

TLA+ models of the parts of Neuralis where concurrency, failure and ordering decide
whether the program is right, checked with TLC on small instances and proved with
TLAPS for every value of the constants. Sources are named relative to `src/`;
`node/` stands for `neuralis-node/neuralis/`, `store/` for
`ipfs-store/neuralis/store/` and `crypto/` for `crypto-layer/neuralis/crypto/`.
`PROJECT.json` maps every definition to the lines it translates and lists the
hazards of the code line by line.

A Neuralis node is one Python process with one asyncio event loop. Coroutines are
interleaved at their awaits only, so code between two awaits is one atomic step in
the models of the mesh, the router, the agents, the API and the process. The content
store is different: it hands its work to a pool of threads, whose accesses to shared
state interleave anywhere. The files of a node are shared with other processes,
which may die between two writes.

## The system

| Component | State | Operations | Talks to | Module |
|---|---|---|---|---|
| Content store (`store/ipfs_store.py`, `blockstore.py`, `pins.py`) | block files, counters and their file, pins and their file, three open flags | add, add_file, get, pin, unpin, gc, stop, restart | its thread pool; called by the API and by content requests | `IpfsStore`, `ContentStore` |
| Protocol router (`node/protocol/router.py`, `messages.py`) | `_pending` with its futures, `_remote_nodes`, `_running` | route_task, answers, errors, eviction, capability messages, start, stop | mesh host, agent runtime | `ProtocolRouter`, `RemoteCall` |
| Mesh host (`node/mesh/host.py`, `peers.py`) | `connections`, `_dialing`, `_tasks`, `_pending_pings`, the status of peers | accept, dial, register, receive loops, send_to, heartbeat, disconnection, disconnect_peer, stop | transport, discovery; handlers of subsystems | `MeshHost` |
| Transport (`node/mesh/transport.py`) | session keys and nonce counters, `_closed` | handshake, send, recv, close | mesh host | `Session`, `SecureChannel` |
| Discovery (`node/mesh/discovery.py`, the dial side of `host.py`) | addresses to try, `_seen_node_ids` and timers, `_dialing` | bootstrap, probes, peer cards, connect_peer, dials | mesh hosts of all nodes | `Discovery` |
| Agent runtime, loader, bus (`node/agents/`) | agents and their states, files and mtimes, subscriptions | start, reload, dispatch, request, stop | router, API | `AgentRuntime` |
| Inference engine (`node/agents/inference.py`) | model, its name, one thread, a semaphore | load, unload, complete | agents, bus | `InferenceEngine` |
| Key store, envelopes, tokens (`crypto/`) | current and retired keys, key records, the encrypted file | start, stop, both rotations; seal, open, issue, verify | node | `KeyStore` |
| Identity (`node/identity.py`) | salt, secret, key and meta file | load_or_create, set_alias | node, command line | `NodeIdentity` |
| API (`node/api/`, `run_server.py`) | WebSocket connections, handlers on the mesh | GET content, events, shutdown | every subsystem | `CanvasApi`, `NodeServer` |
| Node and server (`node/node.py`, `run_server.py`) | state, shutdown callbacks | boot, start, shutdown, shutdown_async, signals | every subsystem's start and stop | `NodeServer` |

What is hard in each of them, and what makes it correct:

- **Content store.** Jobs of different calls run in parallel without a lock.
  Correct: gc removes nothing that is in use, each call behaves like one atomic
  operation on the content although files, counters and pins are changed one access
  at a time, counters and persisted pins agree with the truth, and every call
  returns whatever fails.
- **Protocol router.** Answer, timeout, eviction, lost connection and stop() race
  for one entry of `_pending`. Correct: the entry is removed, the waiter is told,
  and a call runs its task at most once.
- **Mesh host.** Five kinds of coroutine may find one connection lost, and a
  disconnection names a peer, not a connection. Correct: no live connection is open
  and unregistered, each registered connection is read, lost connections leave, and
  no peer gets into a state in which it is never dialed again.
- **Transport.** Each end has counters that must stay in step with the other's, and
  two handshakes that end at different moments. Correct: an end never rejects what
  the other wrote, and when one end is over the other learns it.
- **Discovery.** Two nodes may dial each other at once, dials wait for others to the
  same peer, addresses are stale, nodes die and forget. Correct: who hears another
  gets connected with it, and both agree on their connection.
- **Agent runtime.** Reload suspends while agents stop and start, reloads overlap
  each other and messages, the directory changes meanwhile. Correct: what is
  subscribed was started, what was stopped stays so, no agent is left BUSY, and what
  is loaded is subscribed. The documents promise more, that a request gets to the
  loaded agent and that removed agents are unsubscribed; the code does not keep
  either.
- **Inference engine.** Cancelled calls leave jobs behind, loads share the thread
  with calls. Correct: no permit is lost, a result names the model that made it,
  whoever waits is answered.
- **Key store.** Rotation, restart, expiry, a crash while writing. Correct: what is
  sealed to an advertised key can be opened for its period, a restart restores what
  was there unless a write was refused, tokens of older HMAC keys never verify.
- **Identity.** Four files written one after another, in place, by processes that
  share no lock. Correct: a node_id that was published keeps its key.
- **API.** Receive loops wait for WebSocket clients and for peers that do not read,
  and answers are matched by content only. Correct: a fetch gets its own block, none
  is missed, and all end unless two nodes wait for each other to read.
- **Node.** Subsystems start and stop in order, through two kinds of shutdown that
  may overlap. Correct: each callback is called, in reverse order, and requests and
  signals that come while the server serves have their effect.

## Modules

Each component has a module with its state, one action per step of its code and its
properties, and an `MC` module with values of constants for TLC. `IpfsStore`,
`ProtocolRouter`, `MeshHost`, `AgentRuntime`, `KeyStore` and `InferenceEngine` have
a `_proofs` module each. `Network_proofs` is about `Session` and `Discovery`,
`Node_proofs` about `NodeServer`, `NodeIdentity` and `CanvasApi`; the names of
modules that are extended together differ for that (`NetworkSpec`, `IdentitySpec`,
`CanvasSpec` and so on). Three abstract modules say what a component promises, and
the detailed one is shown to implement it: `ContentStore`, `RemoteCall` and
`SecureChannel`.

`Discovery` composes the nodes of a network, each with a discovery engine and the
dialing half of its host; `MeshHost` has the inside of one host in detail, and
`Session` one connection. `CanvasApi` composes the API of a node, the handlers at
its peers and the receive loops between them. `ProtocolRouter` composes the routers
of all nodes. `NodeServer` composes the starts and stops of all subsystems.

A definition with a comment "Mutant of X" is a plausible error in X and is not used
by any specification. It documents what the property it belongs to detects, when X
is replaced by it.

### IpfsStore and ContentStore

`call[t]` is the frame of caller t. Points in `Queued` are jobs handed to
`run_in_executor` and not yet taken up, points in `Working` occupy one of `Workers`
threads. `blocks`, `pins`, `savedPins`, `tmpPins`, `stats` and `savedStats` are the
block directory, the dictionary of pins, `pins.json`, `pins.tmp`, the counters and
`blockstore.json`. A read-modify-write of a counter is two steps when Python lets
another thread in between, with the value read in `seen`. `Faults` names the file
accesses that may raise; a job also raises when the store was closed before it began
(`Closed`), or when another job changes the dictionary of pins under it
(`Overtaken`: pinned_cids() iterates it without a copy, unpin() tests and then
deletes), and `JobRaises` ends its call. `Restart` is a crash or an orderly exit
followed by a new process on the same directory: frames and memory are lost, files
stay as they are, except that a save of the counters that was under way, that of
close() included, may have torn their file.

A CID is the identity of its block: equal bytes have equal CIDs and no two different
blocks collide. Lengths are `SizeOf`. A manifest is a block whose links are
`ChunksOf`.

The refinement maps `blocks` to stored content, `pins` to pinned content, and each
collection under way to the set it may discard, the blocks that were not in its copy
of the pins.

### ProtocolRouter and RemoteCall

A call is the msg_id of its TASK_REQUEST. `call[c]` is the frame of route_task:
`draining` inside send_to, `severed` when its connection was lost there, `waiting`
inside wait_for. `pending` and `future` are the table and the futures of all nodes;
`loop[<<n, p>>]` is what the receive loop at n for peer p awaits, nothing, a drain,
or the agent that serves a request. `wire` holds the frames written and not yet read
in one direction; drain() waits while there are more than `HighWater`. Losing a
connection empties both directions. Since asyncio reports a lost connection to a
suspended drain() either as an exception or, if the connection was closed in order,
not at all, `SendBroken` and `SendBelieved` are both possible.

`MaxEvents` bounds lost connections, reloads of agents, queries and forgotten nodes.
Agents may answer with data, raise (which the agent runtime turns into an answer, so
that it travels as a TASK_RESPONSE, kind `fault`, and route_task returns it as one),
or return None (TASK_ERROR).

### MeshHost

For every connection k, `Reg(k)` is the coroutine that makes and registers it and
`Loop(k)` the receive loop created for it. `Heartbeat` and `Caller` are the
heartbeat and a caller of send_to, one call after another, then of stop().
`task[x].at` is where a coroutine is suspended, `next` where it goes after a send or
disconnection, `conn` what a loop reads, `out` what a send writes.

`Disconnect` is `DELETE /api/peers/{node_id}`. `Disconnects` is
`_handle_disconnection`. It takes out whatever is registered for the peer; if
closing waits for the transport, the coroutine is suspended at `marking` and the
peer marked later. `Sends` is send_to. Each of them may run on, when nothing has to
be awaited, into whatever its caller does next, so `Returns` and `Continues` carry
on to the next await; no step stops in between where the code cannot.

`link[k]` tells an end-of-file (`cut`), a peer that vanished (`silent`), a transport
that is closing (`reset`), a connection that send or recv flagged (`failed`) and one
that was closed apart, because `is_alive`, `recv` and `close` do.

Abstractions: an announcement and the start of its dial task are one step, and a
dial tries one address. The messages of the handshake and the session's ciphers are
left out: a handshake succeeds or fails. What a peer sends comes from itself (the
sender of an envelope is the peer at the other end). A handler sends nothing or one
answer, or two for a peer card; the answer may be too large, which has the effect of
a GOODBYE. send_to calls of several subsystems at once and of subsystems during
stop() are not modelled.

### AgentRuntime

Coroutines are suspended only where the start(), stop() or handle() of an agent is
awaited, and those are code of plugins that may raise or never end. `loop` is the
coroutine between two such awaits: its steps are as small as one turn of a loop of
the code, so that the directory, which is not the event loop's, can change between
any two of them, but no other coroutine gets in.

A scan s is the discover() of start() (`Boot`) or one call of reload_agents().
`scan[s]` is its frame: the files it listed and has still to visit, the file in hand
with the mtime read (`seen`), the names it has to deactivate (`old`) and to activate
(`batch`), the agent awaited (`who`), and the result it wires at its end (`added`,
`updated`, then `wire`). `Visit`, `Unload`, `Load`, `Start`, `Started`, `Record` and
`Wire` are the turns of its loops, `LoadFails`, `StartFails` and the first case of
`Visit` its error paths. `call[c]` is a dispatch() with the handlers left to run, or
a request() with one.

An agent object is `<<scan, file, name>>`: a scan makes at most one of each class it
finds. The order in which files, classes of a file and old names are taken is left
open (the code sorts files in discover() only). An mtime is the number of the
version of a file; `Classes` says which agents a version defines. An agent that
swallows the cancellation of wait_for is not modelled; the content of messages,
counters, dead letters and the inference engine are left out.

The loader keeps names to paths in `_sources` and reload() reads it as paths to
names. So no agent is deactivated for a deleted file, and every name is forgotten
before changed files are looked at; a changed file's agents are then skipped, since
their names are taken. `Reload` is what the code does.

Subscriptions are kept in order, because request() takes the first handler of a
name. `Quiet` says that no scan is under way and none has raised. `LoadedIsWired` is
about being among the subscribers only, which is what publish() needs. What the
docstrings of request() and reload_agents() say besides is not true of the code (see
below) and no property.

### Session and SecureChannel

`state[e]` is how far an end is, from the handshake to its end; `stream[e]` is what
was written for it and not read: a byte stream keeps order and may be cut off, by an
end of file, a reset, or the process at the other side ending. A session key is the
set of ends whose ephemeral keys went into it, so that a wrong key would show as a
frame that cannot be decrypted. `sendNonce` and `recvNonce` are the counters; a
frame carries the nonce it was made with. `Stranger` is a program that connects and
is not a node.

`Send` encrypts before it writes and the nonce is used up when the writing fails;
`Receive` accepts the next nonce only. The limits are those of the code: `Encrypted`
tests the plaintext, `Valid` the frame. `SecureChannel` maps `sent` and `received`
as they are and `over` to the ends that failed, closed or are gone. That an
established end has to follow one that gave up its handshake a moment earlier is
part of it.

### Discovery

`boot[n]` is the next bootstrap address of a node, `seen[n]` the peers whose probe
it has heard less than the timeout ago, `scheduled[n]` the tasks of
`_dial_announcement` that have not begun, `dial[n]` the dials under way by key,
`link` all connections with the state of both ends, `table[n]` the connections the
host of n has registered. Probes and sockets are one action: `Hear(n, p)` is a probe
of p that got through to n, where `Lan` says it can. A handshake is two steps, the
answer of the acceptor and the end of the dial; a time-out between them leaves the
acceptor with a connection that it finds closed later. `ConnectPeer` is `POST
/api/peers/connect`.

A node may die at any moment (`Crash`, for those in `Fragile`) and starts again with
empty tables.

### NodeIdentity

A process p goes through load_or_create() one file operation at a time; at `pc[p]` =
`<<"open", f>>` it is about to open the file f for writing, which empties it
(`Truncate`), and at `<<"fill", f>>` to write its content (`Fill`). `disk` are the
files, `mem[p]` what the process read or made. `Publish` is boot(), or the card that
a command prints; `Quit` is an orderly end. A key is encrypted under a salt and a
secret, and is readable only with both. `SetAlias` rewrites the meta file of a node,
`RemoveKey` is the operator who deletes a key that cannot be decrypted. `raced`
remembers that a process created an identity while another one was under way: there
is no lock, and the one that loses may have published its node_id.

### KeyStore

A key is the number of the record it was made for. `mem` is the object, `file` what
a save wrote; no method awaits anything, so each is one step, whose write may be
refused before the file is touched, which leaves the old file whole while memory has
the new keys and the method raises, or may end with a torn file because it failed
half way or the process died (`Save`). Two history variables say what a refused
write does: `stale` while memory is ahead of a whole file, until a later save makes
up for it, and `lost` once the process ended in that state, so that the new key is
gone or the rotation undone (or a start() that raised is tried again and makes keys
twice). Everything else is bookkeeping that has to agree: `FirstActive` (which
record a save writes the active key under), `Retire`, `Unexpired` (pruning) and
`Loaded`, which finds keys by the ids of records. `card` is the static key some
sender knows, `envelope` and `token` the ones in flight, with the clock at their
sending; clocks of senders are off by up to `Skew`. `revoked` is the last key made
before a rotation of the HMAC key that returned. `offDuty` remembers that
`rotate_hmac_key()` was called on a store that does not run, which the code does not
refuse.

### InferenceEngine

`call[c]` is the frame of a complete(), `load[l]` that of a load(); `waiting` is the
queue of the semaphore and `queue` the jobs of the single thread of the executor. A
job reads the model when it begins (`JobBegins`). `Cancel` is the bus that gives up
a request: a call that waits leaves the queue, one whose job has not begun takes it
back, one whose job runs leaves it running and returns its permit. The library is
there or not (`llama`).

### CanvasApi

`call[f]` is a `GET /api/content/{cid}`: it registers a handler on the mesh (which
stays registered), sends to the connections one after another and waits for a
future. Each send awaits drain(), which waits while the other end has not read a
message of more than the buffers hold (`Bulky`, `Congested`); `draining` is the peer
a call waits for there. `requests`, `serving` and `arriving` are the way to a peer
and back; the handler there is the one of `run_server.py`, whose send waits too
(`Answer`, `Answered`). Peers fetch from this node as well (`Ask`), and the same
handler here answers inside its receive loop (`Serve`, `Served`; `answering` is the
wait for drain()). `Crossed(p)` is the state in which both receive loops of a
connection are in drain(): neither reads, so neither goes on. What is written to a
connection whose other end is closed is lost, and the receive loop notices the end.
`relay[p]` is a receive loop that broadcasts an event and awaits each WebSocket
client in turn; messages behind it wait. `client` may read, stall or be gone,
`registered` is `ConnectionManager._connections`. `store` has the CIDs that fetched
blocks were added under: a block of another codec is stored under a RAW CID.

### NodeServer

`main` is how far run_server.py is, `sub[i]` what each of the four subsystems does.
`Start`, `Started`, `StartFails` are the awaits of `main()` (the start of any
subsystem may raise), `Boot` and `BootFails` come before. `Post` is `POST
/shutdown`, which makes a task of `shutdown_async()` (`Begin` and, callback after
callback, `StopEnds`); `Signal` calls `shutdown()` in the running loop, which turns
every callback into a task (`BeginTask`) and says STOPPED at once. `Interrupt`,
`Cancel` and `Exit` are what uvicorn and `asyncio.run()` do when the process ends:
what is left is cancelled.

## Runs

| Run | Shows |
|---|---|
| `store_concurrent` | Two callers, a block and a file that links it, two processes, four kinds of fault. `ShieldedStays`: content whose pin every running collection has seen is not lost. `ImplementsContent`: the interleaved store implements the atomic one. `CallsReturn` |
| `store_sequential` | One caller with every operation in three processes, each of which may end at any step; three blocks of different length, a limit of two units, failing accesses to the blocks. Between calls, `StatsExact`: the counters are exact, in the first process; `PinsPersisted`: `pins.json` holds the pins in memory, whatever a crash interrupted. Both fail with two callers, which is why there is one |
| `router_calls` | Two calls of one node, the second to a node it selects, one lost connection, reload, query or forgotten node, a table of one entry. `NoLeakedRequest`, `NoLostWaiter`, `ImplementsRemoteCall`, `PendingCleared` |
| `mesh_connections` | Two connections of one peer, all coroutines, three kinds of loss, an API disconnect, stop(). `NoOrphanSocket`, `EntryHasReader`, `NeverStranded`, `LostPeersLeave` |
| `session` | Two ends, three sizes of message (small, at the limit, over it), three sends per end, losses at any point. `OnlyLossFails`, `ImplementsChannel` |
| `discovery` | Three nodes, three connections: one hears another's probes, two bootstrap from it with and without a node_id, one may die or time out. `EntriesStand` (a table has connections of the right pair that its node has not closed, a dial has its own), `Meet` (who hears another is connected with it again and again), `TablesAgree` (again and again all tables agree) |
| `agent_reloads` | Two files that share a NAME and may change or vanish, the scan of start(), two reloads that overlap, a message and stop(). `BusyIsWorked`, `WiredWasStarted`, `LoadedIsWired` (what is loaded is among the subscribers of its name), `StoppedIsFinal` |
| `inference` | Three calls, two permits, two loads, unload, failing jobs, cancellations. `PermitsExact`, `NamesItsModel`, `EngineAnswers` |
| `key_store` | Five keys, four ticks, one envelope and one token in flight, refused and torn writes, crashes. `InFlightOpens`, `RestartRestores`, `RevokedStaysRevoked` |
| `node_identity` | A server and a command on one directory, three keys, two crashes. `IdentityKept` (a published node_id belongs to the key on disk), `Recovers` |
| `content_fetch` | A fetch for each of two blocks, two peers, of which one has a manifest that fills the buffers and the other a block too large to send, which may ask this node for a block that fills them as well, a WebSocket client, one fault. `FetchedIsOwn`, `NobodyHadIt` (404 only if no asked peer could send it, or waits in drain() with this node), `OpenIsRegistered`, `CallsEnd` |
| `node_server` | Four subsystems, two shutdown requests, signals at any time. `NoneForgotten`, `Lifo`, `PostStops`, `SignalExits` |

Run one with `tlc -config <run>.cfg <MC module>`. CHECK_DEADLOCK is off everywhere:
a store that is closed, routers whose calls have returned, a host that is down, a
process that has exited have nothing more to do. The type invariant of every
component is a theorem; the runs of `NodeIdentity` and `CanvasApi` check theirs too.
Each property has a mutant of the code in `PROJECT.json` that it detects under the
configuration of its run.

### Bounds, and why they are enough

- Two callers of the store give every pair of jobs that may collide; one file and
  the block it links give the two roles a block can have. Blocks of length zero in
  `store_concurrent` keep the byte counter out of the state space; byte counts are
  the subject of `store_sequential`. Two processes give one crash and everything
  that can be found on disk after it; three in `store_sequential` a second crash,
  over the `pins.tmp` that the first one left.
- Two calls, one table entry: the second call meets a full table, a table emptied by
  eviction, or a stopped router. `HighWater = 0` lets a single frame fill a buffer;
  a higher mark needs more frames for the same waiting. `MaxEvents` bounds the
  losses, reloads and queries.
- Two connections of one peer are what a stale disconnection or a late receive loop
  needs; peers do not interact except through the number of connections.
- Three messages per end (`MaxSends`) fill a stream with a handshake, frames and its
  end at once. The limit is four units and the overhead two, so that the message at
  the limit needs the overhead to pass.
- Three nodes and three connections are a peer that is learned from another; with
  `MaxPeers = 2` the table of a node can be full. `MaxFaults` bounds dying nodes,
  time-outs and requests to connect together. `Wishes` has pairs of different nodes
  only: a node that is told its own address connects with itself (see below).
- One change of the directory besides deletions (`MaxTime = 2`) gives a reload a
  new, a changed and a deleted file. Because of what `Reload` does, an agent is only
  ever deactivated when two reloads overlap on two files, so there are two of each,
  and one message to keep the states few; that several messages at once do no harm
  either is proved.
- Three calls for two permits leave one waiting; two loads make a model that is
  replaced and one that is not there yet. Every call is made once.
- Five keys (`MaxKeys`) are the two of a new store and three rotations, or a second
  generation and one rotation. A period of one tick and a clock of three let keys
  and envelopes be fresh, expiring and expired.
- Two processes are what a race needs, two crashes one in creating and one in
  repairing; three keys (`MaxKeys`) let an operator remove two.
- Two fetches of different blocks, which each sees the answers to, one fault
  (`MaxFaults`: a lost connection, a hurried call, a failed add, a stalled client,
  an event or a request of the peer); a connection is closed without a fault by an
  answer that is too long. One `Bulky` message fills a connection; with smaller ones
  the same waiting needs more of them. That clients who leave together, and fetches
  of one block, do no harm either is proved for the properties of safety.
- Two requests to shut down (`MaxPosts`): one under way and one that comes too late.
  Signals are not bounded.

The theorems below hold without these bounds, for any number of whatever the
constants count.

### Fairness

- Store: a call that can go on does (`WF` of `Work(t)`): pool threads run, and file
  operations end. Nothing obliges a caller to make a call.
- Router: a loop that can read a frame does, an agent ends, a waiter whose future is
  settled or whose timeout is due wakes up, the eviction loop finds what is old. No
  fairness of a lost connection or of a call being made.
- Mesh: the heartbeat goes on, the coroutine of each connection goes on (registering
  it, then reading it). The strong fairness of `LoopFails` says that the data left
  in the buffer of a lost connection is finite: a loop that is again and again about
  to read from it gets to the error. A pong is never assumed; a send may always fail
  instead of draining on a lost connection.
- Session: both handshakes have a time limit (`GiveUp`), an established connection
  has a receive loop (`Receive`, `Reject`), and reading a connection that was reset
  raises (`FailReset`). Nobody has to send, close or finish a handshake.
- Discovery: weak fairness only. Tasks run, dials and handshakes end, timers fire, a
  connection that is closed is noticed, a dead node is started again, and probes are
  sent again until one is heard. Nothing is assumed of bootstrap, peer cards or
  requests to connect.
- Inference: the loop runs what is ready and a job that has begun ends. Nobody has
  to load, unload or cancel.
- Identity: processes are started and go on (`WF`), and an operator who can remove
  an unreadable key does so in the end (`SF`: a process may be running again and
  again in between).
- Content fetch: tasks run here and at the peers, peers read on when their own
  handler has ended (`PeerLoop`), and uvicorn drops a client that answers no ping
  for 20 seconds (`Resume`). No peer has to answer in time. A peer whose process is
  suspended and never reads is not covered: the broadcast of a GET has no time
  limit, so a full connection to it would hold the call for as long.
- Server: tasks run, starts and stops end, and uvicorn finishes its requests. No
  signal or request has to come.
- `store_sequential`, `agent_reloads` and `key_store` check safety only and assume
  nothing.

## Theorems

All eight proof modules are checked by `tlapm` to the last leaf, from the
assumptions on the constants only (finite sets, typed functions, naturals); the two
about the persistence of the store name further ones, below. Each component has an
inductive invariant; a lemma per action shows that it is kept, and the theorems
follow.

**Store.** `TypeCorrect`, one lemma per kind of step. `CollectionCorrect`:
`CollectionInv` is inductive together with `TypeOK`; it says that a call inside gc
has in hand (`todo`, `blk`) nothing of its own copy of the pins. Without it a
`Discard` of the abstract store could not be justified, so `StoreRefines` rests on
it: each step either leaves `blocks`, `pins` and `doomed` alone or is one abstract
action, `Discard` for an unlink. `ShieldedKept` follows from the same lemmas: to be
lost, a block must be doomed by a collection, and a collection that begins dooms
nothing that is pinned.

What the files hold can be relied on with a single caller: `PinsKept` proves
`PinsPersisted` where at most one caller does what changes pins (`Alone(PinOps)`)
and saving them does not raise, whatever others store, read and collect, and however
often the process crashes and starts again. `StatsKept` proves `StatsExact` where at
most one caller stores and collects (`Alone(WriteOps)`), and saving counters does
not raise, whatever others read, pin, unpin and close; it speaks of the first
process, as one that starts after a crash reads counters that the last write may not
have reached. `store_sequential` satisfies the hypotheses of both. `OpInv` says
which operation can be at which point, so that the caller in question is the only
one whose steps matter; `PinInv` and `StatInv` then say, point by point, how far the
files and the counters are behind (`Account` is what the call under way still has to
add). `Bytes`, the sum of sizes, is a fold over a finite set; what it does for one
block more or less is proved by induction, as a smallest counterexample that cannot
exist (`LeastNat`).

**Router.** `NothingLeaks` and `NobodyForgotten` are proved from one inductive
invariant that relates `call`, `pending` and `future`: an entry belongs to a call
under way with an unsettled future, a call under way without an entry has a settled
one. `StopEmpties` adds that entries belong to running routers. `RouterRefines`
needs in addition where requests and answers of a call can be: once its request was
taken from the wire, it is nowhere on it, so it is not executed again, and an answer
exists only for a call that was executed.

**Mesh.** The inductive invariant is `ListsOK /\ Core`, `Core` being `TableOK`,
`TaskOK`, `NoOrphanSocket` and `NoStuckDial`. `TaskOK` is by coroutine (`FrameOK`):
which points each kind of coroutine can be at and to return to. That is what the
proof needs, since `Returns` and `Resumes` act on the point a frame names: a
registration that resumes creates its loop and leaves `_dialing`, which gives
`DialsEnd`, and every way a connection leaves the table either closes it or finds it
flagged, which gives `NoneOrphaned`. `UpInv` adds what a connection cannot do: one
that has been taken out is never registered again, and a receive loop that waits for
the peer store to mark its peer has taken its connection out for good. Every entry
of the table is then read by a loop or still being registered (`EveryEntryRead`),
and a peer left VERIFIED without a connection has a task whose next step marks it or
a receive loop that still receives or sends (`NoneStranded`).

**Session.** The invariant says what is in the stream of an end (`Intact`): the i-th
piece still to be read is the one the other end wrote at its own position `Read(e) +
i`, except that the last may be an end of file or the junk of a stranger; nothing is
missing as long as both live. `Counted` ties the nonces to the lengths of `sent` and
`received`. So the next frame has the next nonce, the common key and a legal length,
and `Reject` applies to nothing but an end of file: `FailsOnlyByLoss`.
`StepsOfTheChannel` shows that initial states and steps are those of
`SecureChannel`; its fairness is left to TLC (`ImplementsChannel`).

**Discovery.** A connection belongs to two ends, in the tables, dials and receive
loops of two nodes, and its identity is used again when both are over. `NetInv` says
that what a table has is up at this end (`Stands`) and that a dial under way has a
connection of its own whose answer it has not read (`Dials`). Both hold of one end
whatever the other does (`EndedIs`), so neither can find its connection free or in
use for another pair: duplicates that are refused at one side, time-outs and crashes
included. `TablesStand` states both (`EntriesStand`). The invariant also needs that
nobody dials itself (`Foreign`): a peer list never tells a node its own address, as
what is known of a peer is where it was dialed.

**Agents.** One inductive invariant gives all three properties. `Ready` is the set
of agents that have ended their start() without an error. Everything that has been
handed out lies in it: agents in the table, in `subs`, in the queues of messages, in
the list of stop_all. The agents a scan has not come to (`Ahead`) are idle, so a
`Start` can disturb none of those; this is what makes overlapping scans harmless,
whichever files they share. `BusyIsWorked` is a conjunct of the invariant and
carries itself: whichever of the handlers of an agent ends first leaves it not BUSY.
`StoppedForGood` follows step by step: a handler that ends restores RUNNING only
from BUSY, one begins only at an agent that runs, and a start is only of an idle
agent. `LoadedMeansWired` needs to know who will subscribe an agent that is loaded
and not yet subscribed: a scan at work that has it still before it (`Owes` in
`WireInv`). A name is loaded once, so a subscription under it is that agent's, and a
scan forgets what it owes only by raising, which `LoadedIsWired` excludes.

**Inference.** `PlacesOK`: a call is in the one place its frame names, the queue of
the semaphore, the queue of the thread or the thread; without it a call that is
cancelled could leave itself behind and return a permit twice, so `PermitsKept`
rests on it and on a lemma that the holders change by one call at a time. `LoadsOK`
says the same of loads, hence a model that is finished is new, has its name set, and
once replaced never comes back; `MadeOK` then gives `NamesCorrect`.

**Key store.** `Synced` relates a whole file to the object: same records, the active
keys under the records `FirstActive` finds, every retired key that has not expired
under its id (`Holds`). It gives `RestartIsFaithful` and, with `Younger` (both HMAC
keys are younger than every revoked one), `RevokedForever`. `AdvertisedOpens` needs
`Kept`: each static key of a record is found under its own id, in memory and in a
whole file. Where a write was refused memory keeps it and the file need not, so both
theorems follow `stale` and `lost`: `RestartIsFaithful` speaks of states without a
refused write that no later one made up for, `AdvertisedOpens` of those too, until
the process ends. It is stated under `OnDuty`, since rotating the HMAC key of a
stopped store breaks it. "The smallest record" rests on the well-foundedness of the
naturals, like `Bytes` above.

**Server.** `Descending` and `Awaited` say how far each of the two shutdowns is: the
tasks of `shutdown()` are those of the first callbacks, the last first, and
everything behind them has begun to stop; what is behind the callback
`shutdown_async()` awaits has ended. Only one of them can be under way after
`NotYet`. `LastInFirstOut` and `NothingForgotten` follow.

**Identity.** `MemInv` says what a process knows at each point (`Stage`) and that no
key is there that was not made (`Made`). `KeyInv`, as long as no two creations
overlapped: who creates an identity is `Alone` until its key file is complete
(whoever looked in before found the file empty, and will fail to decrypt it), salt
and secret are those the key is encrypted under (`Materialised`), and every process
with a key has the one on disk. A crash between any two file operations keeps this,
so `IdentityStays` holds for any number of processes, keys and crashes. An operator
removes a key file only when no process has a key and nothing on disk opens it,
hence never one that was published.

**API.** `LinkInv` ties the receive loop and the queues of a peer to its connection,
`FetchInv` a call to what it was asked for. `AskInv` is behind `NoAnswerMissed`: a
peer that was asked, is connected and has the block owes it, and what it owes is on
its way there, being served or on its way back (`Owed`). So a fetch that ends
without its block was owed nothing by a peer that still lives, unless this node and
that peer wait in drain() for each other (`Crossed`). `WebInv`: a broadcast drops
only clients that are gone, hence `ClientsStayRegistered`, for any number of clients
and broadcasts at once.

Only model-checked: the liveness properties (`CallsReturn`, `PendingCleared`,
`LostPeersLeave`, `Recovers`, `Meet`, `TablesAgree`, `CallsEnd`, `PostStops`,
`SignalExits`, `EngineAnswers` and the fairness of `ImplementsChannel`), which are
out of the proof system's reach.

## What the models show

The properties above hold. Writing them down, and trying stronger ones, showed where
the code does less than a reader may expect. The properties are stated so as to
exclude these cases, and the models contain the behaviour.

- **Store.** gc deletes the chunks of a pinned file, as it follows no links from
  what is pinned (`blockstore.py:358`; `ipfs_store.py:276` says they are retained).
  gc copies the pins in one job and deletes in the next, so a block pinned in
  between is lost (`ipfs_store.py:449`; `blockstore.py:33` says that only what is
  not pinned can be deleted): hence "every running collection has seen" in
  `ShieldedStays`. Capacity is tested before an await (`ipfs_store.py:549`), two
  puts of one block count it twice (`blockstore.py:199`) and two saves share one
  `pins.tmp` (`pins.py:329`): hence the single caller of `store_sequential`.
- **Router.** A receive loop sends its answer before it reads on (`router.py:557`),
  and route_task's timeout starts after its send (`router.py:327`): two nodes that
  call each other over full buffers wait for ever (`router.py:13` promises a timeout
  per request); hence `PendingCleared` speaks of the table and not of the caller. A
  send that fails after eviction has removed its entry gives KeyError instead of
  NoRouteError (`router.py:329`). Capabilities are announced once, so a live node
  that was forgotten stays unknown (`router.py:118`). Eviction uses the default
  timeout, not the one of the call (`router.py:692`).
- **Mesh.** `max_peers` is tested before a handshake and not after, so that
  handshakes under way at once exceed it (`host.py:349`, `:408`, `:445`). A
  disconnection marks a peer DISCONNECTED that has registered again meanwhile
  (`host.py:753`), and overwrites BANNED (`host.py:515`). The heartbeat drains
  without a timeout (`host.py:724`), so one peer that does not read holds up the
  probes of all. A handshake that ends during stop() leaves its socket open
  (`host.py:207`): `NoOrphanSocket` ends with stop(). dial() closes its socket only
  on two of the errors a handshake may raise.
- **Discovery.** Two nodes that dial each other at once may each keep the connection
  they dialed and close the other as a duplicate, so that both are lost
  (`host.py:445`-`449`); they meet by a later probe, so `Meet` says "again and
  again". Each bootstrap address is tried once, without retry. All announcements
  without a node_id, API requests among them, share the key "unknown" and exclude
  each other. Peer cards give the ephemeral port of an accepted connection
  (`host.py:650`). A node that is told its own address connects with itself;
  `DiscoveryAssumption` leaves that out.
- **Agents.** The loader's `_sources` maps names to paths and reload() reads it the
  other way round: agents of deleted files stay loaded (`loader.py:143`;
  `loader.py:20` says they are removed) and subscribed (`runtime.py:203` says they
  are unsubscribed). No subscription is removed before stop(), and request() takes
  the first (`bus.py:216`), so that a request made to the name of an agent that was
  replaced gets to its predecessor, stopped or not: hence `LoadedIsWired` says
  subscribed, not reached. Two files that share a NAME, or reloads that overlap,
  leave a file recorded as seen without its agents. reload_agents() does not ask
  whether the runtime runs.
- **Inference.** The name of the model is read after the job has been awaited
  (`inference.py:299`): if a load or unload ends in between, the result names
  another model than made it (`inference.py:105` says "model file used"). Hence
  "still loaded" in `NamesItsModel`.
- **Key store.** `rotate_hmac_key()` on a store that was stopped saves a file
  without the static keys (`keystore.py:309`), which are lost. Both rotations change
  the memory before they write (`keystore.py:269`, `:311`, `:458`): when the write
  is refused the rotation raises, but its key is in use and advertised, and if the
  process ends before a later save, what was sealed to that key cannot be opened,
  and a rotation of the HMAC key that raised is undone. The key file is written in
  place: after a torn write, start() raises until an operator acts. The wildcard of
  a capability is compared as a prefix without its separator (`tokens.py:387`).
- **Identity.** Two processes that create an identity at once publish two node_ids,
  one of which nobody has the key of afterwards. An unreadable `config.toml` counts
  as absent, and so changes `key_dir` and with it the identity.
- **API.** GET content passes the CID as a string, so that nothing is ever served
  from the local store and every request goes to the mesh; the routes for pin and
  unpin do the same, and those that list pins and storage statistics call methods
  IPFSStore does not have. A block may be 16 MB and a message 4 MB, so large blocks
  are never answered; an empty one is taken for no answer; a manifest is stored
  under a RAW CID. Handlers of fetches are never removed (`routes.py:274`).
  broadcast() is called outside of wait_for (`routes.py:275`), and send() awaits
  drain() (`transport.py:386`): a node and a peer that answer each other with blocks
  of more than the buffers hold wait for ever, each inside its receive loop, and a
  GET that sends to this peer never ends (hence `Crossed` in `CallsEnd` and
  `NobodyHadIt`). A receive loop awaits the broadcast to WebSocket clients, so one
  client that stalls holds up the peer.
- **Server.** shutdown() says STOPPED before any stop() has begun, and
  `asyncio.run()` may cancel them half way: `Lifo` speaks of beginnings there.
  uvicorn goes on serving after a shutdown over the API. A shutdown_async() that is
  cancelled leaves the node SHUTTING_DOWN. `run_server_node2.py` without an argument
  passes `config_path=None` and ends with an AttributeError.

## Not modelled

- **Operations of modelled components**: of the store, recount and update_pin, which
  nothing calls, and the queries ls, stat, repo_stat, get_file; of the router,
  broadcast_task, AGENT_WITHDRAW and HEARTBEAT, which nothing sends; of the runtime,
  a second start() and counters; of the node, boot_async(), which nothing calls; of
  the API, the routes that only read and those that are one call of another
  subsystem. They add no shared state to what is modelled.
- **Parts of modelled operations**: the socket of a connection that failed in recv
  or send, whose close() returns at once without closing the writer
  (`transport.py:470`-`473`): `NoOrphanSocket` speaks of connections that are alive.
  A cancellation of route_task from outside. The expiry of messages (`host.py:517`),
  which with clocks that differ drops answers. Data that does not belong to its CID,
  which GET does not check (`routes.py:270`-`278`): peers answer with the handler of
  `run_server.py`. A signal during startup or between the last start and uvicorn's
  own handlers, and a port that cannot be bound.
- **Data**: the JSON of messages and envelopes and its validation, the wire format
  of probes, encoding and parsing of CIDs, what keys are computed from, token text,
  configuration (read once), pydantic models. They are pure functions, whose
  outcomes the models take as success or failure where it matters; ciphers and
  signatures are beyond a model checker.
- **`codec.py`, `signing.py`, `exchange.py`**: stateless, or state per object that
  nothing shares.
- **Canvas UI**: a browser front end that polls the API.
- **Copies of packages** beside `neuralis-node` (`agent-protocol/`,
  `agent-runtime/`, `canvas-api/`): the models are mapped to the copies in
  `neuralis-node`, which is what the server imports.
- **Economics, zero-knowledge proofs, erasure coding, GossipSub**: described in the
  documents as planned; there is no code.

What could follow: an abstract specification of what a host promises its handlers,
into which `MeshHost` and `Session` refine together, and `broadcast_task`.
