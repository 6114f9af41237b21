---------------------------- MODULE ProtocolRouter ----------------------------
(***************************************************************************)
(* Remote task calls between Neuralis nodes: ProtocolRouter (router.py) of *)
(* every node, over the connections of MeshHost.                           *)
(*                                                                         *)
(* route_task registers a waiter in _pending, writes a TASK_REQUEST to the *)
(* peer's connection, waits until the write buffer drains, and only then   *)
(* waits, with a timeout, for the answer.  The peer's receive loop awaits  *)
(* the handler of each message, so it reads no other frame of that         *)
(* connection while an agent works or while its reply drains.              *)
(*                                                                         *)
(* A call is its msg_id.  The mesh appears as one FIFO queue per direction *)
(* and connection; losing the connection loses what the queues hold.       *)
(***************************************************************************)
EXTENDS Integers, FiniteSets, Sequences

CONSTANTS
  Nodes,
  Calls,        \* the msg_ids of the TASK_REQUESTs
  CallerOf,     \* the node that makes the call
  Tasks,
  TaskOf,       \* the task a call asks for
  Undirected,   \* the calls made without a dst_node
  MaxPending,   \* MAX_PENDING
  HighWater,    \* frames a write buffer holds before drain() waits
  MaxEvents     \* bound: lost connections, reloads, queries, stale records

ASSUME RouterAssumption ==
  /\ IsFiniteSet(Nodes) /\ IsFiniteSet(Calls) /\ Calls # {}
  /\ CallerOf \in [Calls -> Nodes]
  /\ TaskOf \in [Calls -> Tasks]
  /\ Undirected \subseteq Calls
  /\ Calls \cap {"free", "drain"} = {}
  /\ MaxPending \in Nat /\ HighWater \in Nat
  /\ MaxEvents \in Nat

VARIABLES
  router,       \* life of each ProtocolRouter
  provides,     \* tasks the agents of each node's runtime declare
  known,        \* _remote_nodes: the tasks a node knows its peers for
  announce,     \* AGENT_ANNOUNCEs start() has still to write
  up,           \* the pairs of nodes that are connected
  wire,         \* frames written and not yet read, per direction
  loop,         \* what the receive loop loop[<<n, p>>] at n for peer p awaits
  orphans,      \* requests an agent works on after their connection was lost
  call,         \* the frame of each route_task
  pending,      \* the msg_ids in the callers' _pending tables
  future,       \* the future of each call
  executed,     \* history: the calls whose task an agent was given
  events        \* bounded by MaxEvents

vars == <<router, provides, known, announce, up, wire, loop, orphans,
          call, pending, future, executed, events>>

Pairs == Nodes \X Nodes
Links == {{p[1], p[2]} : p \in {q \in Pairs : q[1] # q[2]}}

\* "data" and "fault" are TASK_RESPONSEs: the second carries the
\* AgentResponse that _make_handler builds when the agent raises.
Answers == {"data", "fault", "error"}
Kinds   == {"request", "query", "caps"} \cup Answers
Msg     == [kind : Kinds, call : Calls, caps : SUBSET Tasks]

Settled  == Answers \cup {"evicted", "cancelled"}
Failures == {"not_running", "no_route", "busy", "remote_error", "timeout",
             "cancelled", "key_error"}
UnderWay == {"draining", "severed", "waiting"}

Frame == [at  : {"idle", "returned"} \cup UnderWay,
          dst : Nodes,
          out : {"none", "ok"} \cup Failures]

PendingAt(n) == {c \in pending : CallerOf[c] = n}

TypeOK ==
  /\ router \in [Nodes -> {"new", "running", "stopped"}]
  /\ provides \in [Nodes -> SUBSET Tasks]
  /\ known \in [Nodes -> [Nodes -> SUBSET Tasks]]
  /\ announce \in [Nodes -> SUBSET [to : Nodes, caps : SUBSET Tasks]]
  /\ up \subseteq Links
  /\ wire \in [Pairs -> Seq(Msg)]
  /\ loop \in [Pairs -> {"free", "drain"} \cup Calls]
  /\ orphans \subseteq Calls
  /\ call \in [Calls -> Frame]
  /\ pending \subseteq Calls
  /\ future \in [Calls -> {"none", "waiting"} \cup Settled]
  /\ executed \subseteq Calls
  /\ events \in 0..MaxEvents

Init ==
  /\ router = [n \in Nodes |-> "new"]
  /\ provides \in [Nodes -> SUBSET Tasks]
  /\ known = [n \in Nodes |-> [d \in Nodes |-> {}]]
  /\ announce = [n \in Nodes |-> {}]
  /\ up \in SUBSET Links
  /\ wire = [p \in Pairs |-> <<>>]
  /\ loop = [p \in Pairs |-> "free"]
  /\ orphans = {}
  /\ call = [c \in Calls |-> [at |-> "idle", dst |-> CallerOf[c], out |-> "none"]]
  /\ pending = {}
  /\ future = [c \in Calls |-> "none"]
  /\ executed = {}
  /\ events = 0

-----------------------------------------------------------------------------
(* The mesh: MeshHost.send_to and the connections it writes to *)

\* One of the bounded events.
Event == events < MaxEvents /\ events' = events + 1

AnyCall == CHOOSE c \in Calls : TRUE

Request(c)   == [kind |-> "request", call |-> c, caps |-> {}]
Answer(k, c) == [kind |-> k, call |-> c, caps |-> {}]
Query        == [kind |-> "query", call |-> AnyCall, caps |-> {}]
Caps(S)      == [kind |-> "caps", call |-> AnyCall, caps |-> S]

Connected(s, d) == {s, d} \in up

\* The queues w after s has written m to d; nothing is written without a
\* live connection.
Post(w, s, d, m) == IF Connected(s, d) THEN [w EXCEPT ![<<s, d>>] = Append(@, m)] ELSE w

\* drain() waits for the buffer of this queue.
Congested(w, s, d) == Len(w[<<s, d>>]) > HighWater

Connect(l) ==
  /\ l \in Links \ up
  /\ up' = up \cup {l}
  /\ UNCHANGED <<router, provides, known, announce, wire, loop, orphans, call,
                 pending, future, executed, events>>

\* The connection is lost on both sides.  The handlers its receive loops
\* were awaiting go on without it; a send that was draining is woken.
Disconnect(l) ==
  /\ l \in up
  /\ up' = up \ {l}
  /\ wire' = [p \in Pairs |-> IF {p[1], p[2]} = l THEN <<>> ELSE wire[p]]
  /\ loop' = [p \in Pairs |-> IF {p[1], p[2]} = l THEN "free" ELSE loop[p]]
  /\ orphans' = orphans \cup
       {c \in Calls : \E p \in Pairs : {p[1], p[2]} = l /\ loop[p] = c}
  /\ call' = [c \in Calls |->
       IF call[c].at = "draining" /\ {CallerOf[c], call[c].dst} = l
       THEN [call[c] EXCEPT !.at = "severed"] ELSE call[c]]
  /\ Event
  /\ UNCHANGED <<router, provides, known, announce, pending, future, executed>>

-----------------------------------------------------------------------------
(* Life cycle *)

Start(n) ==
  /\ router[n] = "new"
  /\ router' = [router EXCEPT ![n] = "running"]
  /\ announce' = [announce EXCEPT ![n] =
       IF provides[n] = {} THEN {}
       ELSE {[to |-> d, caps |-> provides[n]] : d \in {e \in Nodes : Connected(n, e)}}]
  /\ UNCHANGED <<provides, known, up, wire, loop, orphans, call, pending, future,
                 executed, events>>

\* One turn of MeshHost.broadcast in _announce_capabilities.
AnnounceTo(n, a) ==
  /\ a \in announce[n]
  /\ announce' = [announce EXCEPT ![n] = @ \ {a}]
  /\ wire' = Post(wire, n, a.to, Caps(a.caps))
  /\ UNCHANGED <<router, provides, known, up, loop, orphans, call, pending, future,
                 executed, events>>

\* The handler on the mesh stays registered: a stopped router still answers.
Stop(n) ==
  /\ router[n] = "running"
  /\ router' = [router EXCEPT ![n] = "stopped"]
  /\ future' = [c \in Calls |-> IF c \in PendingAt(n) THEN "cancelled" ELSE future[c]]
  /\ pending' = pending \ PendingAt(n)
  /\ UNCHANGED <<provides, known, announce, up, wire, loop, orphans, call, executed,
                 events>>

\* The agents of node n are loaded, reloaded or stopped (AgentRuntime).
Reload(n, S) ==
  /\ S # provides[n]
  /\ Event
  /\ provides' = [provides EXCEPT ![n] = S]
  /\ UNCHANGED <<router, known, announce, up, wire, loop, orphans, call, pending, future,
                 executed>>

-----------------------------------------------------------------------------
(* route_task *)

Running(n) == router[n] = "running"

\* len(self._pending) >= MAX_PENDING
Full(n) == Cardinality(PendingAt(n)) >= MaxPending

CanHandle(n, d, t) == t \in known[n][d]

NodesForTask(n, t) == {d \in Nodes : CanHandle(n, d, t)}

\* dst_node as given, or any node the table has for the task.
Targets(c) == IF c \in Undirected THEN NodesForTask(CallerOf[c], TaskOf[c]) ELSE Nodes

Return(c, out) == call' = [call EXCEPT ![c].at = "returned", ![c].out = out]

RefuseTask(c) ==
  /\ call[c].at = "idle"
  /\ LET n == CallerOf[c] IN
       \/ ~Running(n) /\ Return(c, "not_running")
       \/ Running(n) /\ Targets(c) = {} /\ Return(c, "no_route")
       \/ Running(n) /\ Targets(c) # {} /\ Full(n) /\ Return(c, "busy")
       \/ /\ Running(n) /\ ~Full(n)
          /\ \E d \in Targets(c) : ~Connected(n, d)
          /\ Return(c, "no_route")
  /\ UNCHANGED <<router, provides, known, announce, up, wire, loop, orphans, pending,
                 future, executed, events>>

\* The waiter is registered before the frame is written; no await between.
RouteTask(c, d) ==
  LET n == CallerOf[c] IN
  /\ call[c].at = "idle"
  /\ Running(n) /\ ~Full(n)
  /\ d \in Targets(c) /\ Connected(n, d)
  /\ pending' = pending \cup {c}
  /\ future' = [future EXCEPT ![c] = "waiting"]
  /\ wire' = Post(wire, n, d, Request(c))
  /\ call' = [call EXCEPT ![c] =
       [at |-> IF Congested(wire', n, d) THEN "draining" ELSE "waiting",
        dst |-> d, out |-> "none"]]
  /\ UNCHANGED <<router, provides, known, announce, up, loop, orphans, executed,
                 events>>

\* drain() on a lost connection: it raises if the connection broke, and
\* returns as if all were sent if it was closed by the peer.
SendBroken(c) ==
  /\ call[c].at = "severed"
  /\ pending' = pending \ {c}
  /\ Return(c, IF c \in pending THEN "no_route" ELSE "key_error")
  /\ UNCHANGED <<router, provides, known, announce, up, wire, loop, orphans, future,
                 executed, events>>

SendBelieved(c) ==
  /\ call[c].at = "severed"
  /\ call' = [call EXCEPT ![c].at = "waiting"]
  /\ UNCHANGED <<router, provides, known, announce, up, wire, loop, orphans, pending,
                 future, executed, events>>

\* Mutant of Outcome: TASK_ERROR is not told from TASK_RESPONSE.
OutcomeUnchecked(f) ==
  CASE f = "evicted"   -> "timeout"
    [] f = "cancelled" -> "cancelled"
    [] OTHER           -> "ok"

\* What route_task makes of its settled future.
Outcome(f) ==
  CASE f = "error"     -> "remote_error"
    [] f = "evicted"   -> "timeout"
    [] f = "cancelled" -> "cancelled"
    [] OTHER           -> "ok"

Wake(c) ==
  /\ call[c].at = "waiting" /\ future[c] \in Settled
  /\ Return(c, Outcome(future[c]))
  /\ UNCHANGED <<router, provides, known, announce, up, wire, loop, orphans, pending,
                 future, executed, events>>

\* Mutant of TimeOut: the entry stays in _pending.
TimeOutKeepsEntry(c) ==
  /\ call[c].at = "waiting" /\ future[c] = "waiting"
  /\ future' = [future EXCEPT ![c] = "cancelled"]
  /\ Return(c, "timeout")
  /\ UNCHANGED <<router, provides, known, announce, up, wire, loop, orphans, pending,
                 executed, events>>

\* asyncio.wait_for gives up and cancels the future.
TimeOut(c) ==
  /\ call[c].at = "waiting" /\ future[c] = "waiting"
  /\ future' = [future EXCEPT ![c] = "cancelled"]
  /\ pending' = pending \ {c}
  /\ Return(c, "timeout")
  /\ UNCHANGED <<router, provides, known, announce, up, wire, loop, orphans, executed,
                 events>>

-----------------------------------------------------------------------------
(* _eviction_loop *)

\* Mutant of Evict: the waiter is not told.
EvictSilently(c) ==
  /\ Running(CallerOf[c]) /\ c \in pending
  /\ pending' = pending \ {c}
  /\ UNCHANGED <<router, provides, known, announce, up, wire, loop, orphans, call,
                 future, executed, events>>

\* Mutant of Evict: only requests whose frame was sent have an age.
EvictSent(c) ==
  /\ Running(CallerOf[c]) /\ c \in pending /\ call[c].at = "waiting"
  /\ pending' = pending \ {c}
  /\ future' = [future EXCEPT ![c] = "evicted"]
  /\ UNCHANGED <<router, provides, known, announce, up, wire, loop, orphans, call,
                 executed, events>>

Evict(c) ==
  /\ Running(CallerOf[c]) /\ c \in pending
  /\ pending' = pending \ {c}
  /\ future' = [future EXCEPT ![c] = "evicted"]
  /\ UNCHANGED <<router, provides, known, announce, up, wire, loop, orphans, call,
                 executed, events>>

\* A record not refreshed for five minutes is deleted.
ForgetNode(n, d) ==
  /\ Running(n) /\ known[n][d] # {}
  /\ Event
  /\ known' = [known EXCEPT ![n][d] = {}]
  /\ UNCHANGED <<router, provides, announce, up, wire, loop, orphans, call, pending,
                 future, executed>>

-----------------------------------------------------------------------------
(* _on_mesh_agent_msg: the receive loop at d takes a frame from s *)

\* Reading a frame relieves the writer: drains that were waiting return.
Take(d, s, kinds) ==
  /\ loop[<<d, s>>] = "free" /\ wire[<<s, d>>] # <<>>
  /\ Head(wire[<<s, d>>]).kind \in kinds
  /\ call' = [c \in Calls |->
       IF /\ call[c].at = "draining" /\ CallerOf[c] = s /\ call[c].dst = d
          /\ Len(wire[<<s, d>>]) - 1 <= HighWater
       THEN [call[c] EXCEPT !.at = "waiting"] ELSE call[c]]

Rest(d, s) == [wire EXCEPT ![<<s, d>>] = Tail(@)]

Relieved(d, s) ==
  IF loop[<<s, d>>] = "drain" /\ Len(wire[<<s, d>>]) - 1 <= HighWater
  THEN [loop EXCEPT ![<<s, d>>] = "free"] ELSE loop

\* The handler in the loop at d writes m to s and waits for it to drain.
Reply(w, l, d, s, m) ==
  /\ wire' = Post(w, d, s, m)
  /\ loop' = [l EXCEPT ![<<d, s>>] =
       IF Connected(d, s) /\ Congested(wire', d, s) THEN "drain" ELSE "free"]

\* The router never started here, or the message is too old.
Drop(d, s) ==
  /\ Take(d, s, Kinds)
  /\ wire' = Rest(d, s) /\ loop' = Relieved(d, s)
  /\ UNCHANGED <<router, provides, known, announce, up, orphans, pending, future,
                 executed, events>>

\* _handle_task_request with an agent for the task.
RunTask(d, s) ==
  LET c == Head(wire[<<s, d>>]).call IN
  /\ router[d] # "new"
  /\ Take(d, s, {"request"})
  /\ TaskOf[c] \in provides[d]
  /\ executed' = executed \cup {c}
  /\ wire' = Rest(d, s)
  /\ loop' = [Relieved(d, s) EXCEPT ![<<d, s>>] = c]
  /\ UNCHANGED <<router, provides, known, announce, up, orphans, pending, future,
                 events>>

\* _handle_task_request without one: _send_error.
DeclineTask(d, s) ==
  LET c == Head(wire[<<s, d>>]).call IN
  /\ router[d] # "new"
  /\ Take(d, s, {"request"})
  /\ TaskOf[c] \notin provides[d]
  /\ Reply(Rest(d, s), Relieved(d, s), d, s, Answer("error", c))
  /\ UNCHANGED <<router, provides, known, announce, up, orphans, pending, future,
                 executed, events>>

\* The agent is done with the request of call c: it returned, it raised, or
\* it returned None.
AgentDone(c, k) ==
  LET d == call[c].dst
      s == CallerOf[c] IN
  /\ \/ /\ loop[<<d, s>>] = c
        /\ Reply(wire, loop, d, s, Answer(k, c))
        /\ UNCHANGED orphans
     \/ /\ c \in orphans
        /\ orphans' = orphans \ {c}
        /\ wire' = Post(wire, d, s, Answer(k, c))
        /\ UNCHANGED loop
  /\ UNCHANGED <<router, provides, known, announce, up, call, pending, future, executed,
                 events>>

\* _handle_task_response: an answer nobody waits for is ignored.
Resolve(d, s) ==
  LET m == Head(wire[<<s, d>>]) IN
  /\ router[d] # "new"
  /\ Take(d, s, Answers)
  /\ pending' = pending \ {m.call}
  /\ future' = IF m.call \in pending THEN [future EXCEPT ![m.call] = m.kind] ELSE future
  /\ wire' = Rest(d, s) /\ loop' = Relieved(d, s)
  /\ UNCHANGED <<router, provides, known, announce, up, orphans, executed, events>>

\* _handle_capability_query
AnswerQuery(d, s) ==
  /\ router[d] # "new"
  /\ Take(d, s, {"query"})
  /\ Reply(Rest(d, s), Relieved(d, s), d, s, Caps(provides[d]))
  /\ UNCHANGED <<router, provides, known, announce, up, orphans, pending, future,
                 executed, events>>

\* _handle_capability_reply and _handle_agent_announce
Learn(d, s) ==
  /\ router[d] # "new"
  /\ Take(d, s, {"caps"})
  /\ known' = [known EXCEPT ![d][s] = Head(wire[<<s, d>>]).caps]
  /\ wire' = Rest(d, s) /\ loop' = Relieved(d, s)
  /\ UNCHANGED <<router, provides, announce, up, orphans, pending, future, executed,
                 events>>

\* query_capabilities; a broadcast is one such step per peer.
QueryCapabilities(n, d) ==
  /\ Connected(n, d)
  /\ wire' = Post(wire, n, d, Query)
  /\ Event
  /\ UNCHANGED <<router, provides, known, announce, up, loop, orphans, call, pending,
                 future, executed>>

-----------------------------------------------------------------------------
(* Specification *)

Receive(d, s) ==
  \/ Drop(d, s) \/ RunTask(d, s) \/ DeclineTask(d, s)
  \/ Resolve(d, s) \/ AnswerQuery(d, s) \/ Learn(d, s)

Network == \E l \in Links : Connect(l) \/ Disconnect(l)

NodeStep(n) ==
  \/ Start(n) \/ Stop(n)
  \/ \E a \in announce[n] : AnnounceTo(n, a)
  \/ \E S \in SUBSET Tasks : Reload(n, S)
  \/ \E d \in Nodes : ForgetNode(n, d) \/ QueryCapabilities(n, d) \/ Receive(n, d)

CallStep(c) ==
  \/ RefuseTask(c)
  \/ \E d \in Nodes : RouteTask(c, d)
  \/ SendBroken(c) \/ SendBelieved(c) \/ Wake(c) \/ TimeOut(c) \/ Evict(c)
  \/ \E k \in Answers : AgentDone(c, k)

Next ==
  \/ Network
  \/ \E n \in Nodes : NodeStep(n)
  \/ \E c \in Calls : CallStep(c)

Spec == Init /\ [][Next]_vars

\* The event loops run every ready coroutine and timer, TCP delivers what a
\* live connection carries to a loop that reads, and agents finish.
Fairness ==
  /\ \A d, s \in Nodes : WF_vars(Receive(d, s))
  /\ \A c \in Calls :
       /\ WF_vars(SendBroken(c) \/ SendBelieved(c))
       /\ WF_vars(Wake(c) \/ TimeOut(c))
       /\ WF_vars(Evict(c))
       /\ WF_vars(\E k \in Answers : AgentDone(c, k))

FairSpec == Spec /\ Fairness

-----------------------------------------------------------------------------
(* Properties *)

\* A table holds no more than MAX_PENDING requests, and an entry belongs to a
\* route_task that has not returned: whichever of answer, timeout, eviction,
\* lost connection and stop comes first, none leaves an entry behind.
NoLeakedRequest ==
  /\ \A n \in Nodes : Cardinality(PendingAt(n)) <= MaxPending
  /\ \A c \in pending : call[c].at \in UnderWay

\* Whoever takes a request out of the table while route_task is under way
\* has settled its future: nobody waits for an answer that cannot come.
NoLostWaiter ==
  \A c \in Calls : call[c].at \in UnderWay /\ c \notin pending => future[c] \in Settled

\* stop() leaves no request behind and none is added later, although sends
\* of the stopped router may still be draining.
StoppedIsEmpty == \A n \in Nodes : router[n] = "stopped" => PendingAt(n) = {}

phase  == [c \in Calls |-> CASE call[c].at = "idle" -> "idle"
                             [] call[c].at = "returned" -> "closed"
                             [] OTHER -> "open"]
result == [c \in Calls |-> call[c].out]

Remote == INSTANCE RemoteCall

\* route_task executes a task at most once, and returns a response only if
\* the task was executed, through loss of connections, evictions and late
\* answers.
ImplementsRemoteCall == Remote!Spec

\* A registered request leaves the table, even while its send is stuck in
\* drain() where no timeout of route_task applies: the eviction loop sees it.
PendingCleared == \A c \in Calls : c \in pending ~> c \notin pending
=============================================================================
