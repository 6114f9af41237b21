------------------------------- MODULE MeshHost -------------------------------
(***************************************************************************)
(* The connections of one Neuralis node: MeshHost (host.py), the statuses  *)
(* of PeerStore (peers.py) and PeerConnection (transport.py).              *)
(*                                                                         *)
(* All coroutines run on one event loop and are interleaved at their       *)
(* awaits.  For every connection one coroutine makes it and registers it,  *)
(* then a receive loop serves it; beside them run the heartbeat, callers   *)
(* of send_to, and stop().  Any of them may find a connection lost and     *)
(* call _handle_disconnection, which names a peer, not a connection.       *)
(***************************************************************************)
EXTENDS Integers, FiniteSets

CONSTANTS
  Peers,
  Conns,        \* the connections that are made, one after the other or at once
  PeerOf,       \* the peer at the other end
  MaxPeers,     \* config.network.max_peers
  None

ASSUME HostAssumption ==
  /\ IsFiniteSet(Peers) /\ IsFiniteSet(Conns)
  /\ PeerOf \in [Conns -> Peers]
  /\ MaxPeers \in Nat
  /\ None \notin Conns

VARIABLES
  stage,        \* "up" while _running, then the stages of stop()
  table,        \* connections: the registered connection of each peer
  status,       \* PeerInfo.status; "unknown" when PeerStore has no record
  link,         \* each PeerConnection and its TCP connection
  task,         \* the frame of each coroutine
  dialing,      \* the connections whose peer is in _dialing
  todo,         \* peers the heartbeat has still to probe
  dead,         \* its list of peers to disconnect
  closing       \* connections stop() has still to send GOODBYE to, or to close

vars == <<stage, table, status, link, task, dialing, todo, dead, closing>>

Statuses == {"unknown", "CONNECTED", "VERIFIED", "DISCONNECTED", "BANNED"}

\* "cut": the peer sent EOF; "silent": it vanished; "reset": the transport is
\* closing after an error; "failed": recv or send set _closed, and close()
\* will leave the writer alone; "closed": close() was called.
LinkStates == {"unused", "handshake", "open", "cut", "silent", "reset", "failed", "closed"}

Flagged(l) == l \in {"failed", "closed"}
Alive(l)   == l \in {"open", "cut", "silent"}     \* PeerConnection.is_alive

Reg(k)    == <<"register", k>>
Loop(k)   == <<"loop", k>>
Heartbeat == <<"heartbeat", None>>
Caller    == <<"caller", None>>      \* callers of send_to or of the API, one after another, then stop()

Singles == {Heartbeat, Caller}
TaskIds == ({"register", "loop"} \X Conns) \cup Singles

Points == {"none", "idle", "handshake", "sending", "marking", "spawn", "created",
           "top", "list", "recv", "probe", "pong", "ended"}

Frame == [at   : Points,
          peer : Peers \cup {None},     \* whom the coroutine is about
          conn : Conns \cup {None},     \* the connection a receive loop reads
          out  : Conns \cup {None},     \* the connection a send writes to
          next : Points]                \* where a send or disconnection returns to

At(x, point) == task[x].at = point

TypeOK ==
  /\ stage \in {"up", "goodbye", "closing", "down"}
  /\ table \in [Peers -> Conns \cup {None}]
  /\ \A p \in Peers : table[p] # None => PeerOf[table[p]] = p
  /\ status \in [Peers -> Statuses]
  /\ link \in [Conns -> LinkStates]
  /\ task \in [TaskIds -> Frame]
  /\ \A x \in TaskIds : (At(x, "recv") => task[x].conn # None)
                     /\ (At(x, "sending") => task[x].out # None)
  /\ dialing \subseteq Conns
  /\ todo \subseteq Peers /\ dead \subseteq Peers
  /\ closing \subseteq Conns

NewFrame(x) == [at   |-> IF x \in Singles THEN "idle" ELSE "none",
                peer |-> IF x \in Singles THEN None ELSE PeerOf[x[2]],
                conn |-> None, out |-> None, next |-> "none"]

Init ==
  /\ stage = "up"
  /\ table = [p \in Peers |-> None]
  /\ status = [p \in Peers |-> "unknown"]
  /\ link = [k \in Conns |-> "unused"]
  /\ task = [x \in TaskIds |-> NewFrame(x)]
  /\ dialing = {}
  /\ todo = {} /\ dead = {} /\ closing = {}

-----------------------------------------------------------------------------
(* Coroutines and disconnections *)

\* The frame of x at a point where it sends and closes nothing.
Settled(x, point) ==
  IF point = "ended" THEN [NewFrame(x) EXCEPT !.at = "ended"]
  ELSE [task[x] EXCEPT !.at = point, !.out = None, !.next = "none",
          !.peer = IF point = "idle" THEN None ELSE @]

Goto(x, point) == task' = [task EXCEPT ![x] = Settled(x, point)]

Registered == {p \in Peers : table[p] # None}

\* Mutant of Marked: only a peer whose card was not verified is marked.
MarkedConnected(st, p) == IF st[p] = "CONNECTED" THEN [st EXCEPT ![p] = "DISCONNECTED"] ELSE st

\* mark_disconnected, for a peer the store knows
Marked(st, p) == IF st[p] = "unknown" THEN st ELSE [st EXCEPT ![p] = "DISCONNECTED"]

\* Mutant of SpawnLoop: no receive loop unless the connection is still up.
SpawnLoopIfOpen(k) ==
  [task EXCEPT ![Reg(k)] = Settled(Reg(k), "ended"),
               ![Loop(k)].at = IF link[k] = "open" THEN "created" ELSE "ended"]

\* The receive loop is created, whether or not the card was sent.
SpawnLoop(k) ==
  [task EXCEPT ![Reg(k)] = Settled(Reg(k), "ended"), ![Loop(k)].at = "created"]

\* Where a handler of a receive loop returns to: the top of the loop, or the
\* second send of _handle_peer_card and then the top.
Tops == {"top", "list"}

\* while self._running and conn.is_alive
GoesOn(x, lk) == stage = "up" /\ Alive(lk[task[x].conn])

\* x goes on at `next', up to where it is next suspended.  A receive loop that
\* ends here has just disconnected its peer: to send to it, or to disconnect
\* it again, is idle.
Resumes(x, next, lk) ==
  /\ task' = CASE next = "spawn" -> SpawnLoop(x[2])
              [] next \in Tops  -> [task EXCEPT ![x] =
                                     Settled(x, IF GoesOn(x, lk) THEN "recv" ELSE "ended")]
              [] OTHER          -> [task EXCEPT ![x] = Settled(x, next)]
  /\ dialing' = IF next = "spawn" THEN dialing \ {x[2]} ELSE dialing

\* _handle_disconnection(p) by coroutine x, which goes on at `next'.  The
\* connection taken out is whatever is registered now.  Closing it waits for
\* the transport, unless it was flagged; the peer is marked afterwards.
Disconnects(x, p, next, st, lk) ==
  LET c     == table[p]
      waits == c # None /\ ~Flagged(lk[c])
  IN
  /\ table' = [table EXCEPT ![p] = None]
  /\ link' = IF waits THEN [lk EXCEPT ![c] = "closed"] ELSE lk
  /\ status' = IF waits THEN st ELSE Marked(st, p)
  /\ IF waits
     THEN /\ task' = [task EXCEPT ![x].at = "marking", ![x].peer = p,
                                  ![x].out = None, ![x].next = next]
          /\ UNCHANGED dialing
     ELSE Resumes(x, next, lk)

\* The send or disconnection is over, and x goes on at `next': a receive loop
\* that reads no further disconnects its peer once more.
Returns(x, next, st) ==
  IF next \in Tops /\ ~GoesOn(x, link)
  THEN Disconnects(x, PeerOf[x[2]], "ended", st, link)
  ELSE /\ status' = st
       /\ Resumes(x, next, link)
       /\ UNCHANGED <<table, link>>

\* send_to(p) by coroutine x: suspended in drain() on the registered
\* connection, or over at once when there is none that is alive.
Sends(x, p, next, st) ==
  IF table[p] # None /\ Alive(link[table[p]])
  THEN /\ task' = [task EXCEPT ![x].at = "sending", ![x].peer = p,
                               ![x].out = table[p], ![x].next = next]
       /\ status' = st
       /\ UNCHANGED <<table, link, dialing>>
  ELSE Returns(x, next, st)

\* x goes on after a send or a disconnection.
Continues(x, next, st) ==
  IF next = "list" THEN Sends(x, PeerOf[x[2]], "top", st) ELSE Returns(x, next, st)

SendDone(x) ==
  /\ At(x, "sending")
  /\ Continues(x, task[x].next, status)
  /\ UNCHANGED <<stage, todo, dead, closing>>

Mark(x) ==
  /\ At(x, "marking")
  /\ Continues(x, task[x].next, Marked(status, task[x].peer))
  /\ UNCHANGED <<stage, todo, dead, closing>>

Failed(k) == IF Flagged(link[k]) THEN link ELSE [link EXCEPT ![k] = "failed"]

\* The connection is lost under a send.  By now another may be registered.
SendFails(x) ==
  LET f == task[x] IN
  /\ At(x, "sending") /\ link[f.out] # "open"
  /\ IF x = Heartbeat
     THEN /\ dead' = dead \cup {f.peer} /\ todo' = todo \ {f.peer}
          /\ Disconnects(x, f.peer, "probe", status, Failed(f.out))
     ELSE /\ Disconnects(x, f.peer, f.next, status, Failed(f.out))
          /\ UNCHANGED <<todo, dead>>
  /\ UNCHANGED <<stage, closing>>

\* A subsystem sends to p; a message that is too large costs the connection.
Send(p) ==
  /\ stage = "up" /\ At(Caller, "idle")
  /\ table[p] # None /\ Alive(link[table[p]])
  /\ \/ Sends(Caller, p, "idle", status)
     \/ Disconnects(Caller, p, "idle", status, link)
  /\ UNCHANGED <<stage, todo, dead, closing>>

\* DELETE /api/peers/{node_id}: whatever connection is registered, alive or not
Disconnect(p) ==
  /\ stage = "up" /\ At(Caller, "idle") /\ table[p] # None
  /\ Disconnects(Caller, p, "idle", status, link)
  /\ UNCHANGED <<stage, todo, dead, closing>>

\* The network loses a connection.
Lose(k) ==
  /\ link[k] = "open"
  /\ \E l \in {"cut", "silent", "reset"} : link' = [link EXCEPT ![k] = l]
  /\ UNCHANGED <<stage, table, status, task, dialing, todo, dead, closing>>

-----------------------------------------------------------------------------
(* Making and registering a connection *)

Handshake(k) ==
  /\ link[k] = "unused" /\ Cardinality(Registered) < MaxPeers
  /\ link' = [link EXCEPT ![k] = "handshake"]
  /\ Goto(Reg(k), "handshake")
  /\ UNCHANGED <<stage, table, status, todo, dead, closing>>

\* _handle_inbound, until the server is closed
Accept(k) ==
  /\ stage # "down"
  /\ Handshake(k)
  /\ UNCHANGED dialing

\* _on_peer_discovered, or a PEER_LIST from another peer, and the start of
\* _dial_announcement
Dial(k) ==
  LET p == PeerOf[k] IN
  /\ stage \in {"up", "goodbye"}
  /\ table[p] = None
  /\ Registered = {} => status[p] # "VERIFIED"
  /\ \A j \in dialing : PeerOf[j] # p
  /\ Handshake(k)
  /\ dialing' = dialing \cup {k}

HandshakeFails(k) ==
  /\ At(Reg(k), "handshake")
  /\ link' = [link EXCEPT ![k] = "closed"]
  /\ Goto(Reg(k), "ended")
  /\ dialing' = dialing \ {k}
  /\ UNCHANGED <<stage, table, status, todo, dead, closing>>

\* add_or_update with a PeerInfo of status s: never back to a lower rank
Rank(s) == CASE s = "VERIFIED" -> 4 [] s = "CONNECTED" -> 2 [] s = "DISCONNECTED" -> 0
             [] s = "BANNED" -> -1
Updated(p, s) ==
  IF status[p] = "unknown" \/ Rank(s) > Rank(status[p])
  THEN [status EXCEPT ![p] = s] ELSE status

\* Mutant of Duplicate: a connection that is there is always replaced.
DuplicateNever(k) == FALSE

Duplicate(k) == table[PeerOf[k]] # None /\ Alive(link[table[PeerOf[k]]])

\* The duplicate check of _register_connection, and what follows it up to
\* the await in _send_peer_card.
Register(k) ==
  LET p == PeerOf[k] IN
  /\ At(Reg(k), "handshake")
  /\ IF Duplicate(k)
     THEN /\ link' = [link EXCEPT ![k] = "closed"]
          /\ Goto(Reg(k), "ended")
          /\ dialing' = dialing \ {k}
          /\ UNCHANGED <<table, status>>
     ELSE /\ link' = [link EXCEPT ![k] = "open"]
          /\ table' = [table EXCEPT ![p] = k]
          /\ status' = Updated(p, "CONNECTED")
          /\ task' = [task EXCEPT ![Reg(k)].at = "sending", ![Reg(k)].out = k,
                                  ![Reg(k)].next = "spawn"]
          /\ UNCHANGED dialing
  /\ UNCHANGED <<stage, todo, dead, closing>>

-----------------------------------------------------------------------------
(* _recv_loop *)

\* The loop reads the connection registered when it starts, which need not
\* be the one it was created for.
LoopStart(k) ==
  LET x == Loop(k)
      p == PeerOf[k]
      c == table[p]
  IN
  /\ At(x, "created")
  /\ IF c = None
     THEN Goto(x, "ended") /\ UNCHANGED <<table, status, link, dialing>>
     ELSE IF stage = "up" /\ Alive(link[c])
     THEN /\ task' = [task EXCEPT ![x].at = "recv", ![x].conn = c]
          /\ UNCHANGED <<table, status, link, dialing>>
     ELSE Disconnects(x, p, "ended", status, link)
  /\ UNCHANGED <<stage, todo, dead, closing>>

\* recv() raises, also for a frame that is too large or cannot be decrypted.
LoopFails(k) ==
  LET x == Loop(k) IN
  /\ At(x, "recv") /\ link[task[x].conn] # "silent"
  /\ Disconnects(x, PeerOf[k], "ended", status, Failed(task[x].conn))
  /\ UNCHANGED <<stage, todo, dead, closing>>

\* recv() returns a frame, perhaps one that came before the connection was
\* lost or closed.
Frames(k) == At(Loop(k), "recv") /\ link[task[Loop(k)].conn] # "silent"

\* The signature of the envelope is wrong.
LoopBans(k) ==
  /\ Frames(k)
  /\ Disconnects(Loop(k), PeerOf[k], "ended",
       [status EXCEPT ![PeerOf[k]] = "BANNED"], link)
  /\ UNCHANGED <<stage, todo, dead, closing>>

\* _handle_peer_card: the first of two sends
LoopCard(k) ==
  /\ Frames(k)
  /\ Sends(Loop(k), PeerOf[k], "list", Updated(PeerOf[k], "VERIFIED"))
  /\ UNCHANGED <<stage, todo, dead, closing>>

\* A message whose handler answers: PING, PEER_LIST_REQ, AGENT_MSG
LoopAnswers(k) ==
  /\ Frames(k)
  /\ Sends(Loop(k), PeerOf[k], "top", status)
  /\ UNCHANGED <<stage, todo, dead, closing>>

\* A message that is dropped, or whose handler does not answer
LoopDrops(k) ==
  /\ Frames(k)
  /\ Returns(Loop(k), "top", status)
  /\ UNCHANGED <<stage, todo, dead, closing>>

\* _handle_goodbye; an answer that is too large has the same effect.
LoopGoodbye(k) ==
  /\ Frames(k)
  /\ Disconnects(Loop(k), PeerOf[k], "top", status, link)
  /\ UNCHANGED <<stage, todo, dead, closing>>

-----------------------------------------------------------------------------
(* _heartbeat_loop *)

BeatRound ==
  /\ At(Heartbeat, "idle") /\ Registered # {}
  /\ todo' = Registered /\ dead' = {}
  /\ Goto(Heartbeat, "probe")
  /\ UNCHANGED <<stage, table, status, link, dialing, closing>>

\* One turn over the list: a PING is sent, or the peer is found dead.
BeatProbe(p) ==
  /\ At(Heartbeat, "probe") /\ p \in todo
  /\ IF table[p] # None /\ Alive(link[table[p]])
     THEN Sends(Heartbeat, p, "pong", status) /\ UNCHANGED <<todo, dead>>
     ELSE /\ todo' = todo \ {p} /\ dead' = dead \cup {p}
          /\ UNCHANGED <<table, status, link, task, dialing>>
  /\ UNCHANGED <<stage, closing>>

BeatPong ==
  LET p == task[Heartbeat].peer IN
  /\ At(Heartbeat, "pong")
  /\ table[p] # None => link[table[p]] # "silent"
  /\ todo' = todo \ {p}
  /\ Goto(Heartbeat, "probe")
  /\ UNCHANGED <<stage, table, status, link, dialing, dead, closing>>

\* Mutant of BeatTimeout: the peer is not put on the list.
BeatTimeoutForgets ==
  /\ At(Heartbeat, "pong")
  /\ todo' = todo \ {task[Heartbeat].peer}
  /\ Goto(Heartbeat, "probe")
  /\ UNCHANGED <<stage, table, status, link, dialing, dead, closing>>

BeatTimeout ==
  LET p == task[Heartbeat].peer IN
  /\ At(Heartbeat, "pong")
  /\ todo' = todo \ {p} /\ dead' = dead \cup {p}
  /\ Goto(Heartbeat, "probe")
  /\ UNCHANGED <<stage, table, status, link, dialing, closing>>

BeatDrop(p) ==
  /\ At(Heartbeat, "probe") /\ todo = {} /\ p \in dead
  /\ dead' = dead \ {p}
  /\ Disconnects(Heartbeat, p, "probe", status, link)
  /\ UNCHANGED <<stage, todo, closing>>

BeatOver ==
  /\ At(Heartbeat, "probe") /\ todo = {} /\ dead = {}
  /\ Goto(Heartbeat, IF stage = "up" THEN "idle" ELSE "ended")
  /\ UNCHANGED <<stage, table, status, link, dialing, todo, dead, closing>>

-----------------------------------------------------------------------------
(* stop() *)

StopBegin ==
  /\ stage = "up" /\ At(Caller, "idle")
  /\ stage' = "goodbye"
  /\ closing' = {table[p] : p \in Registered}
  /\ UNCHANGED <<table, status, link, task, dialing, todo, dead>>

\* One turn of broadcast(GOODBYE) over the connections there were.
StopGoodbye(k) ==
  /\ stage = "goodbye" /\ At(Caller, "idle") /\ k \in closing
  /\ closing' = closing \ {k}
  /\ IF Alive(link[k])
     THEN task' = [task EXCEPT ![Caller].at = "sending", ![Caller].peer = PeerOf[k],
                               ![Caller].out = k, ![Caller].next = "idle"]
     ELSE UNCHANGED task
  /\ UNCHANGED <<stage, table, status, link, dialing, todo, dead>>

\* The heartbeat and the receive loops are cancelled where they are; the
\* coroutines that make connections are not among _tasks.
StopCancel ==
  /\ stage = "goodbye" /\ closing = {} /\ At(Caller, "idle")
  /\ stage' = "closing"
  /\ task' = [x \in TaskIds |->
       IF x = Heartbeat \/ (x[1] = "loop" /\ task[x].at # "none")
       THEN Settled(x, "ended") ELSE task[x]]
  /\ closing' = {table[p] : p \in Registered}
  /\ todo' = {} /\ dead' = {}
  /\ UNCHANGED <<table, status, link, dialing>>

StopClose(k) ==
  /\ stage = "closing" /\ k \in closing
  /\ closing' = closing \ {k}
  /\ link' = IF Flagged(link[k]) THEN link ELSE [link EXCEPT ![k] = "closed"]
  /\ UNCHANGED <<stage, table, status, task, dialing, todo, dead>>

StopClear ==
  /\ stage = "closing" /\ closing = {} /\ stage' = "down"
  /\ table' = [p \in Peers |-> None]
  /\ UNCHANGED <<status, link, task, dialing, todo, dead, closing>>

-----------------------------------------------------------------------------
(* Specification *)

Connecting(k) ==
  \/ Lose(k) \/ Accept(k) \/ Dial(k) \/ HandshakeFails(k)
  \/ Register(k) \/ StopGoodbye(k) \/ StopClose(k)

Serving(k) ==
  \/ LoopStart(k) \/ LoopFails(k)
  \/ LoopBans(k) \/ LoopCard(k) \/ LoopAnswers(k) \/ LoopDrops(k) \/ LoopGoodbye(k)

Beating ==
  \/ BeatRound \/ BeatPong \/ BeatTimeout \/ BeatOver
  \/ \E p \in Peers : BeatProbe(p) \/ BeatDrop(p)

Resuming(x) == Mark(x) \/ SendDone(x) \/ SendFails(x)

Next ==
  \/ \E k \in Conns : Connecting(k) \/ Serving(k)
  \/ \E p \in Peers : Send(p) \/ Disconnect(p)
  \/ Beating
  \/ \E x \in TaskIds : Resuming(x)
  \/ StopBegin \/ StopCancel \/ StopClear

Spec == Init /\ [][Next]_vars

\* What the coroutine of connection k does next on its own: first the one that
\* registers it, then its receive loop.
Advances(k) == Resuming(Reg(k)) \/ LoopStart(k) \/ Resuming(Loop(k))

\* The event loop runs what is ready: a heartbeat that is due, a send that
\* drains or fails, a close that completes, a receive loop that can go on.
\* What a lost connection still has in its buffer comes to an end, so that its
\* receive loop gets to the error.
Fairness ==
  /\ WF_vars(Beating \/ Resuming(Heartbeat))
  /\ \A k \in Conns : WF_vars(Advances(k))
  /\ SF_vars(\E k \in Conns : LoopFails(k) /\ link[task[Loop(k)].conn] # "open")

FairSpec == Spec /\ Fairness

-----------------------------------------------------------------------------
(* Properties *)

\* A connection that is alive is the registered one of its peer: none is
\* replaced, forgotten or taken out without being closed, until stop() is done.
NoOrphanSocket ==
  stage # "down" => \A k \in Conns : Alive(link[k]) => table[PeerOf[k]] = k

Reads(x, k) ==
  \/ At(x, "created")
  \/ task[x].at \in {"recv", "sending", "marking"} /\ task[x].conn = k

\* Every registered connection is still being registered or has a receive
\* loop that reads it, even when loops start late and read the connection
\* of another registration.
EntryHasReader ==
  stage = "up" => \A p \in Registered :
    \/ task[Reg(table[p])].at # "ended"
    \/ \E k \in Conns : PeerOf[k] = p /\ Reads(Loop(k), table[p])

\* Discovery ignores a VERIFIED peer, so one that has no connection must be
\* about to be marked: a receive loop or a disconnection of it is not over.
NeverStranded ==
  stage = "up" => \A p \in Peers : status[p] = "VERIFIED" /\ table[p] = None =>
    \E x \in TaskIds : /\ task[x].peer = p
                       /\ \/ At(x, "marking")
                          \/ x[1] = "loop" /\ task[x].at \in {"recv", "sending"}

\* A peer is in _dialing only as long as a dial to it is under way; it would
\* never be dialed again otherwise.
NoStuckDial == \A k \in dialing : task[Reg(k)].at # "ended"

\* A connection whose peer is gone, with or without an EOF, does not stay
\* registered while the host runs.
LostPeersLeave ==
  \A k \in Conns :
    (link[k] \in {"cut", "silent", "reset"} /\ table[PeerOf[k]] = k)
      ~> (table[PeerOf[k]] # k \/ stage # "up")
=============================================================================
