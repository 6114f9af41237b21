------------------------------ MODULE CanvasApi ------------------------------
(* Content fetched over the mesh, and the WebSocket clients that are told of *)
(* its events: api/routes.py and api/app.py of one node, the handler of      *)
(* run_server.py that serves content at each of its peers, and the           *)
(* connections between them. One receive loop per connection handles one     *)
(* message after another, and waits for the handlers. send() ends when       *)
(* drain() does, which waits while more is unread than the buffers hold.     *)
EXTENDS Integers, Sequences, FiniteSets

CONSTANTS Calls,     \* calls of GET /api/content/{cid}
          Peers,
          HeldBy,    \* the blocks each peer has
          Wanted,    \* the blocks each call may ask for
          Large,     \* blocks whose answer is longer than a message may be
          Bulky,     \* messages, blocks or OurBlock, of more than the buffers of a connection hold
          EmptyBlocks,     \* blocks without a byte
          Manifests, \* blocks whose codec is not RAW
          Clients,   \* WebSocket connections of the Canvas UI
          MaxFaults, \* bound on lost connections, hurried calls, failed adds, stalled clients, news
          PeerCard, News, NotFound, Failed, None,
          PeerAsks,  \* a CONTENT_REQUEST of a peer for a block of this node
          OurBlock,  \* the answer to it
          Sending    \* a peer has written its answer, and waits in drain()

Blocks  == UNION {HeldBy[p] : p \in Peers}
Replies == Blocks \cup {NotFound, Failed, None}
Recoded(b) == <<"RAW", b>>
\* what _wire_mesh_events() and _wire_agent_events() pass on to the clients:
\* cards and announcements; GOODBYE, after which nothing comes, is left out
Events  == {PeerCard, News}
Cids    == Blocks \cup {Recoded(b) : b \in Manifests}

ASSUME CanvasAssumption ==
  /\ {PeerCard, News, NotFound, Failed, None, PeerAsks, OurBlock, Sending} \cap (Blocks \cup Clients) = {}
  /\ NotFound # None /\ Sending # None /\ PeerAsks \notin Events
  /\ Bulky \subseteq Blocks \cup {OurBlock}
  /\ Large \cup EmptyBlocks \cup Manifests \subseteq Blocks
  /\ Wanted \in [Calls -> SUBSET Blocks] /\ MaxFaults \in Nat

VARIABLES call,        \* what each call does
          handlers,    \* calls whose handler is in mesh._handlers
          connections, \* peers in mesh.connections
          closed,      \* those whose end is closed, which is not noticed yet
          requests,    \* CONTENT_REQUESTs and answers on their way to a peer
          serving,     \* what the receive loop of a peer serves
          answering,   \* peers whose request the receive loop here has answered, while drain() waits
          arriving,    \* messages of a peer on their way here
          relay,       \* what the receive loop of a peer's messages broadcasts
          store,       \* CIDs of the local store
          endpoint,    \* websocket_endpoint() of each client
          client,      \* the clients themselves
          registered,  \* ConnectionManager._connections
          faults
canvasVars == <<call, handlers, connections, closed, requests, serving, answering, arriving, relay,
          store, endpoint, client, registered, faults>>
mesh == <<connections, closed, requests, serving, answering, arriving>>
web  == <<relay, endpoint, client, registered>>

NoRelay == [todo |-> {}, dead |-> {}, on |-> FALSE]

CanvasTypeOK ==
  /\ call \in [Calls -> [pc : {"idle", "asking", "done"}, cid : Blocks \cup {None},
                         todo : SUBSET Peers, draining : SUBSET Peers, asked : SUBSET Peers, future : Blocks \cup {None}, reply : Replies]]
  /\ handlers \subseteq Calls
  /\ \A f \in Calls : call[f].pc = "asking" => f \in handlers
  /\ connections \subseteq Peers /\ closed \subseteq connections
  /\ requests \in [Peers -> Seq(Blocks \cup {OurBlock})]
  /\ arriving \in [Peers -> Seq(Blocks \cup Events \cup {PeerAsks})]
  /\ serving \in [Peers -> Blocks \cup {None, Sending}] /\ answering \subseteq connections
  /\ relay \in [Peers -> [todo : SUBSET Clients, dead : SUBSET Clients, on : BOOLEAN]]
  /\ store \subseteq Cids
  /\ endpoint \in [Clients -> {"none", "reading", "over"}]
  /\ client \in [Clients -> {"reads", "stalls", "gone"}]
  /\ registered \subseteq Clients
  /\ faults \in 0 .. MaxFaults

CanvasInit ==
  /\ call = [f \in Calls |-> [pc |-> "idle", cid |-> None, todo |-> {}, draining |-> {}, asked |-> {},
                            future |-> None, reply |-> None]]
  /\ handlers = {} /\ connections = {} /\ closed = {}
  /\ requests = [p \in Peers |-> <<>>] /\ arriving = [p \in Peers |-> <<>>]
  /\ serving = [p \in Peers |-> None] /\ answering = {} /\ relay = [p \in Peers |-> NoRelay]
  /\ store = {}
  /\ endpoint = [c \in Clients |-> "none"] /\ client = [c \in Clients |-> "reads"] /\ registered = {}
  /\ faults = 0

Fault == faults < MaxFaults /\ faults' = faults + 1

Elements(s) == {s[i] : i \in DOMAIN s}

\* drain() waits at the end of a connection that is open, and sent what is in q
Congested(q) == Elements(q) \cap Bulky # {}
-----------------------------------------------------------------------------
(* get_content().                                                            *)

(* ipfs.get() is passed the string: a block that is there cannot be checked  *)
(* against it, and the exception is dropped like the one of a block that is  *)
(* not there. With no connection the reply is 404; else the handler is       *)
(* registered, and broadcast() begins with the connections of now.           *)
Call(f, b) ==
  /\ call[f].pc = "idle" /\ b \in Wanted[f]
  /\ LET asks == connections # {} IN
       /\ call' = [call EXCEPT ![f] = [@ EXCEPT !.cid = b, !.pc = IF asks THEN "asking" ELSE "done",
                                              !.todo = connections, !.reply = IF asks THEN None ELSE NotFound]]
       /\ handlers' = IF asks THEN handlers \cup {f} ELSE handlers
  /\ UNCHANGED <<mesh, store, web, faults>>

\* broadcast() writes to one more peer; what is written to a closed connection is lost
Send(f, p) ==
  /\ call[f].pc = "asking" /\ p \in call[f].todo /\ call[f].draining = {}
  /\ call' = [call EXCEPT ![f].todo = @ \ {p}, ![f].asked = IF p \in closed THEN @ ELSE @ \cup {p},
       ![f].draining = IF p \notin closed /\ Congested(requests[p]) THEN {p} ELSE {}]
  /\ requests' = [requests EXCEPT ![p] = IF p \in closed THEN @ ELSE Append(@, call[f].cid)]
  /\ UNCHANGED <<handlers, connections, closed, serving, answering, arriving, store, web, faults>>

\* drain() returns, or raises since the end of the peer is closed
Drained(f, p) ==
  /\ p \in call[f].draining /\ ~Congested(requests[p])
  /\ call' = [call EXCEPT ![f].draining = {}]
  /\ UNCHANGED <<handlers, mesh, store, web, faults>>

\* wait_for() begins when broadcast() is over
Waits(f) == call[f].pc = "asking" /\ call[f].todo = {} /\ call[f].draining = {}

\* wait_for() returns; add() stores what it is given under the codec RAW
Add(f) ==
  /\ Waits(f) /\ call[f].future # None
  /\ store' = store \cup {IF call[f].future \in Manifests THEN Recoded(call[f].future) ELSE call[f].future}
  /\ call' = [call EXCEPT ![f].pc = "done", ![f].reply = call[f].future]
  /\ UNCHANGED <<handlers, mesh, web, faults>>

\* StorageLimitExceeded or a failed write is no TimeoutError: the reply is 500
AddFails(f) ==
  /\ Waits(f) /\ call[f].future # None /\ Fault
  /\ call' = [call EXCEPT ![f].pc = "done", ![f].reply = Failed]
  /\ UNCHANGED <<handlers, mesh, store, web>>

\* both receive loops of a connection are in drain(), where neither reads
Crossed(p) == p \in answering /\ serving[p] = Sending

\* an answer to f may still come
Coming(f) == \E p \in connections : ~Crossed(p) /\
  \/ p \notin closed /\ call[f].cid \in Elements(requests[p]) \cup {serving[p]}
  \/ call[f].cid \in Elements(arriving[p])

(* Mutant of TimeOut: the time limit covers only an answer that has begun.   *)
TimeOutBegun(f) ==
  /\ Waits(f) /\ call[f].future = None /\ Coming(f) /\ Fault
  /\ call' = [call EXCEPT ![f].pc = "done", ![f].reply = NotFound]
  /\ UNCHANGED <<handlers, mesh, store, web>>

(* The 5 seconds are over: when nothing comes any more, or too early. The    *)
(* future is cancelled, the handler stays.                                   *)
TimeOut(f) ==
  /\ Waits(f) /\ call[f].future = None
  /\ IF Coming(f) THEN Fault ELSE UNCHANGED faults
  /\ call' = [call EXCEPT ![f].pc = "done", ![f].reply = NotFound]
  /\ UNCHANGED <<handlers, mesh, store, web>>
-----------------------------------------------------------------------------
(* Peers and connections.                                                    *)

\* both ends begin with their card
Connect(p) ==
  /\ p \notin connections
  /\ connections' = connections \cup {p}
  /\ arriving' = [arriving EXCEPT ![p] = <<PeerCard>>]
  /\ UNCHANGED <<call, handlers, closed, requests, serving, answering, store, web, faults>>

\* broadcast() of the peer: its router starts, and announces its agents
Announce(p) ==
  /\ p \in connections \ closed /\ Fault
  /\ arriving' = [arriving EXCEPT ![p] = Append(@, News)]
  /\ UNCHANGED <<call, handlers, connections, closed, requests, serving, answering, store, web>>

\* the end of the peer is over, and with it what it has not read or sent
Close(p) ==
  /\ closed' = closed \cup {p}
  /\ requests' = [requests EXCEPT ![p] = <<>>] /\ serving' = [serving EXCEPT ![p] = None]
  /\ call' = [f \in Calls |-> [call[f] EXCEPT !.asked = @ \ {p}]]

Lose(p) ==
  /\ p \in connections \ closed /\ Close(p) /\ Fault
  /\ UNCHANGED <<handlers, connections, answering, arriving, store, web>>

\* the receive loop here is in no handler
Reads(p) == ~relay[p].on /\ p \notin answering

(* Mutant of Notice: the end of a connection outlives it.                    *)
NoticeLate(p) ==
  /\ p \in closed /\ arriving[p] = <<>> /\ Reads(p)
  /\ connections' = connections \ {p}
  /\ call' = [f \in Calls |-> [call[f] EXCEPT !.todo = @ \ {p}, !.draining = @ \ {p}]]
  /\ UNCHANGED <<handlers, closed, requests, serving, answering, arriving, store, web, faults>>

\* the receive loop here reads on to the end of the stream
Notice(p) ==
  /\ p \in closed /\ arriving[p] = <<>> /\ Reads(p)
  /\ connections' = connections \ {p} /\ closed' = closed \ {p}
  /\ call' = [f \in Calls |-> [call[f] EXCEPT !.todo = @ \ {p}, !.draining = @ \ {p}]]
  /\ UNCHANGED <<handlers, requests, serving, answering, arriving, store, web, faults>>

(* _handle_content_request() of the peer, which drops the exception of a      *)
(* block that it does not have; an answer is kept as one of its own calls.   *)
Take(p) ==
  /\ p \notin closed /\ serving[p] = None /\ requests[p] # <<>>
  /\ requests' = [requests EXCEPT ![p] = Tail(@)]
  /\ serving' = [serving EXCEPT ![p] = IF Head(requests[p]) \in HeldBy[p] THEN Head(requests[p]) ELSE None]
  /\ UNCHANGED <<call, handlers, connections, closed, answering, arriving, store, web, faults>>

(* send_to(): an answer that is too long for a message is taken for a        *)
(* connection that failed, which is closed.                                  *)
Answer(p) ==
  /\ serving[p] \in Blocks
  /\ IF serving[p] \in Large
     THEN Close(p) /\ UNCHANGED arriving
     ELSE /\ arriving' = [arriving EXCEPT ![p] = Append(@, serving[p])]
          /\ serving' = [serving EXCEPT ![p] = IF Congested(arriving'[p]) THEN Sending ELSE None]
          /\ UNCHANGED <<call, closed, requests>>
  /\ UNCHANGED <<handlers, connections, answering, store, web, faults>>

\* its drain() returns
Answered(p) ==
  /\ serving[p] = Sending /\ ~Congested(arriving[p])
  /\ serving' = [serving EXCEPT ![p] = None]
  /\ UNCHANGED <<call, handlers, connections, closed, requests, answering, arriving, store, web, faults>>

\* GET of the peer, for a block that is in the local store and not too long
Ask(p) ==
  /\ p \in connections \ closed /\ Fault
  /\ arriving' = [arriving EXCEPT ![p] = Append(@, PeerAsks)]
  /\ UNCHANGED <<call, handlers, connections, closed, requests, serving, answering, store, web>>

\* _handle_content_request() of this node, until drain()
Serve(p) ==
  /\ p \in connections /\ Reads(p) /\ arriving[p] # <<>> /\ Head(arriving[p]) = PeerAsks
  /\ arriving' = [arriving EXCEPT ![p] = Tail(@)]
  /\ requests' = [requests EXCEPT ![p] = IF p \in closed THEN @ ELSE Append(@, OurBlock)]
  /\ answering' = IF p \notin closed /\ Congested(requests'[p]) THEN answering \cup {p} ELSE answering
  /\ UNCHANGED <<call, handlers, connections, closed, serving, store, web, faults>>

Served(p) ==
  /\ p \in answering /\ ~Congested(requests[p]) /\ answering' = answering \ {p}
  /\ UNCHANGED <<call, handlers, connections, closed, requests, serving, arriving, store, web, faults>>

(* Mutant of Takers: an answer is taken by every call that waits.            *)
TakersAny(b) == {f \in handlers : call[f].future = None /\ call[f].pc = "asking"}

(* Mutant of Takers: the handler is registered after the broadcast.          *)
TakersLate(b) == {f \in handlers : call[f].cid = b /\ call[f].future = None /\ Waits(f)}

\* the calls whose _on_cid_response() takes b
Takers(b) == {f \in handlers : call[f].cid = b /\ call[f].future = None /\ call[f].pc = "asking"}

\* a CONTENT_RESPONSE is offered to all handlers; data that is empty counts as missing
Respond(p) ==
  /\ p \in connections /\ Reads(p) /\ arriving[p] # <<>> /\ Head(arriving[p]) \notin Events \cup {PeerAsks}
  /\ LET b == Head(arriving[p]) IN
       call' = [f \in Calls |-> IF f \in Takers(b) /\ b \notin EmptyBlocks THEN [call[f] EXCEPT !.future = b] ELSE call[f]]
  /\ arriving' = [arriving EXCEPT ![p] = Tail(@)]
  /\ UNCHANGED <<handlers, connections, closed, requests, serving, answering, store, web, faults>>
-----------------------------------------------------------------------------
(* The WebSocket and ConnectionManager.broadcast().                          *)

\* the handler of an event is awaited by the receive loop
Relay(p) ==
  /\ p \in connections /\ Reads(p) /\ arriving[p] # <<>> /\ Head(arriving[p]) \in Events
  /\ arriving' = [arriving EXCEPT ![p] = Tail(@)]
  /\ relay' = [relay EXCEPT ![p] = [todo |-> registered, dead |-> {}, on |-> TRUE]]
  /\ UNCHANGED <<call, handlers, connections, closed, requests, serving, answering, store, endpoint, client, registered, faults>>

(* Mutant of RelayTo: a client that does not read counts as dead.            *)
RelayToHurried(p, c) ==
  /\ relay[p].on /\ c \in relay[p].todo
  /\ relay' = [relay EXCEPT ![p].todo = @ \ {c}, ![p].dead = IF client[c] # "reads" THEN @ \cup {c} ELSE @]
  /\ UNCHANGED <<call, handlers, mesh, store, endpoint, client, registered, faults>>

\* send_text() waits for a client that does not read
RelayTo(p, c) ==
  /\ relay[p].on /\ c \in relay[p].todo /\ client[c] # "stalls"
  /\ relay' = [relay EXCEPT ![p].todo = @ \ {c}, ![p].dead = IF client[c] = "gone" THEN @ \cup {c} ELSE @]
  /\ UNCHANGED <<call, handlers, mesh, store, endpoint, client, registered, faults>>

RelayOver(p) ==
  /\ relay[p].on /\ relay[p].todo = {}
  /\ registered' = registered \ relay[p].dead
  /\ relay' = [relay EXCEPT ![p] = NoRelay]
  /\ UNCHANGED <<call, handlers, mesh, store, endpoint, client, faults>>

Open(c) ==
  /\ endpoint[c] = "none"
  /\ endpoint' = [endpoint EXCEPT ![c] = "reading"] /\ registered' = registered \cup {c}
  /\ UNCHANGED <<call, handlers, mesh, store, relay, client, faults>>

(* receive_text() raises WebSocketDisconnect. The snapshot is sent outside    *)
(* of the try, and the answer to a ping may raise something else: then a     *)
(* client that has gone stays registered.                                    *)
ReadEnds(c) ==
  /\ endpoint[c] = "reading" /\ client[c] = "gone"
  /\ endpoint' = [endpoint EXCEPT ![c] = "over"]
  /\ registered' \in {registered, registered \ {c}}
  /\ UNCHANGED <<call, handlers, mesh, store, relay, client, faults>>

\* a page that is closed, one that is suspended
Leave(c) ==
  /\ endpoint[c] = "reading" /\ client[c] # "gone"
  /\ client' = [client EXCEPT ![c] = "gone"]
  /\ UNCHANGED <<call, handlers, mesh, store, relay, endpoint, registered, faults>>

Stall(c) ==
  /\ endpoint[c] = "reading" /\ client[c] = "reads" /\ Fault
  /\ client' = [client EXCEPT ![c] = "stalls"]
  /\ UNCHANGED <<call, handlers, mesh, store, relay, endpoint, registered>>

\* it reads on, or its pings time out
Resume(c) ==
  /\ client[c] = "stalls"
  /\ \E s \in {"reads", "gone"} : client' = [client EXCEPT ![c] = s]
  /\ UNCHANGED <<call, handlers, mesh, store, relay, endpoint, registered, faults>>

CallStep(f) == Add(f) \/ TimeOut(f) \/ \E p \in Peers : Send(f, p) \/ Drained(f, p)
Loop(p) == Notice(p) \/ Respond(p) \/ Serve(p) \/ Served(p) \/ Relay(p) \/ RelayOver(p)
           \/ \E c \in Clients : RelayTo(p, c)

PeerLoop(p) == Take(p) \/ Answer(p) \/ Answered(p)

CanvasNext ==
  \/ \E f \in Calls : CallStep(f) \/ AddFails(f) \/ \E b \in Blocks : Call(f, b)
  \/ \E p \in Peers : Loop(p) \/ Connect(p) \/ Announce(p) \/ Lose(p) \/ PeerLoop(p) \/ Ask(p)
  \/ \E c \in Clients : Open(c) \/ ReadEnds(c) \/ Leave(c) \/ Stall(c) \/ Resume(c)

CanvasSpec == CanvasInit /\ [][CanvasNext]_canvasVars

(* Tasks run, at the peers too, and a client that does not answer the pings  *)
(* of uvicorn is dropped after 20 seconds.                                   *)
FairCanvasSpec ==
  /\ CanvasSpec
  /\ \A f \in Calls : WF_canvasVars(CallStep(f))
  /\ \A p \in Peers : /\ WF_canvasVars(Loop(p)) /\ WF_canvasVars(PeerLoop(p))
  /\ \A c \in Clients : WF_canvasVars(Resume(c))
-----------------------------------------------------------------------------
\* what a peer that is asked for b can send
CanSend(p, b) == b \in HeldBy[p] \ (Large \cup EmptyBlocks)

(* Calls that run at once for different or the same blocks never get each    *)
(* other's: data that is returned is what was asked for, and it is in the    *)
(* local store by then.                                                      *)
FetchedIsOwn == \A f \in Calls : call[f].reply \in Blocks =>
  /\ call[f].reply = call[f].cid
  /\ {call[f].cid, Recoded(call[f].cid)} \cap store # {}

(* A call that is not hurried ends with 404 only when no peer that was asked *)
(* and is still connected has a block that can be sent, unless the two nodes *)
(* wait for each other to read: no answer is missed, however early it comes  *)
(* and whichever call it was sent for.                                       *)
NobodyHadIt == [][\A f \in Calls :
  Waits(f) /\ call'[f].reply = NotFound /\ faults' = faults =>
    \A p \in call[f].asked : CanSend(p, call[f].cid) => Crossed(p)]_canvasVars

(* A client that is connected gets events as long as its endpoint runs,      *)
(* though others leave in the middle of a broadcast and it may not read.     *)
OpenIsRegistered == \A c \in Clients :
  endpoint[c] = "reading" /\ client[c] # "gone" => c \in registered

(* Every call is answered, even when its peers go, never answer or their     *)
(* messages wait for a client that does not read: each is made once, and     *)
(* there comes a time when none waits. One case is left, since broadcast()   *)
(* has no time limit: this node and a peer answer each other, each waits in  *)
(* drain() for the other to read, and a call that sends to that peer waits   *)
(* with them.                                                                *)
CallsEnd == \/ []<>(\A f \in Calls : call[f].pc # "asking")
            \/ \E p \in Peers : <>[]Crossed(p)
=============================================================================
