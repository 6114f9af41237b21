------------------------ MODULE ProtocolRouter_proofs ------------------------
(* Theorems about ProtocolRouter and their proofs. *)
EXTENDS ProtocolRouter, FiniteSetTheorems, TLAPS

-----------------------------------------------------------------------------
(* Type correctness *)

\* The messages the code builds are messages.
LEMMA MessageTypes ==
  /\ \A c \in Calls : Request(c) \in Msg
  /\ \A c \in Calls, k \in Answers : Answer(k, c) \in Msg
  /\ Query \in Msg
  /\ \A S \in SUBSET Tasks : Caps(S) \in Msg
PROOF
  <1>1. AnyCall \in Calls
    BY RouterAssumption DEF AnyCall, RouterAssumption
  <1> QED
    BY <1>1 DEF Msg, Kinds, Answers, Request, Answer, Query, Caps

\* Writing a message leaves the queues well typed.
LEMMA PostType ==
  ASSUME NEW w \in [Pairs -> Seq(Msg)], NEW s \in Nodes, NEW d \in Nodes, NEW m \in Msg
  PROVE  Post(w, s, d, m) \in [Pairs -> Seq(Msg)]
PROOF
  <1>1. <<s, d>> \in Pairs
    BY DEF Pairs
  <1>2. w[<<s, d>>] \in Seq(Msg)
    BY <1>1
  <1>3. Append(w[<<s, d>>], m) \in Seq(Msg)
    BY <1>2
  <1> QED
    BY <1>1, <1>3 DEF Post

\* Reading a frame yields a message and leaves the queues, the loops and the
\* calls well typed.
LEMMA TakeType ==
  ASSUME TypeOK, NEW d \in Nodes, NEW s \in Nodes, NEW K, Take(d, s, K)
  PROVE  /\ Head(wire[<<s, d>>]) \in Msg
         /\ Head(wire[<<s, d>>]).kind \in K
         /\ Rest(d, s) \in [Pairs -> Seq(Msg)]
         /\ Relieved(d, s) \in [Pairs -> {"free", "drain"} \cup Calls]
         /\ call' \in [Calls -> Frame]
PROOF
  <1>1. <<s, d>> \in Pairs
    BY DEF Pairs
  <1>2. wire[<<s, d>>] \in Seq(Msg) /\ wire[<<s, d>>] # <<>>
    BY <1>1 DEF TypeOK, Take
  <1>3. Head(wire[<<s, d>>]) \in Msg /\ Tail(wire[<<s, d>>]) \in Seq(Msg)
    BY <1>2
  <1>4. Head(wire[<<s, d>>]).kind \in K
    BY DEF Take
  <1>5. Rest(d, s) \in [Pairs -> Seq(Msg)]
    BY <1>1, <1>3 DEF Rest, TypeOK
  <1>6. Relieved(d, s) \in [Pairs -> {"free", "drain"} \cup Calls]
    BY <1>1 DEF Relieved, TypeOK
  <1>7. call' \in [Calls -> Frame]
    <2> DEFINE New(c) == IF /\ call[c].at = "draining" /\ CallerOf[c] = s
                            /\ call[c].dst = d /\ Len(wire[<<s, d>>]) - 1 <= HighWater
                         THEN [call[c] EXCEPT !.at = "waiting"] ELSE call[c]
    <2>1. ASSUME NEW c \in Calls PROVE New(c) \in Frame
      <3>1. call[c] \in Frame
        BY DEF TypeOK
      <3> QED
        BY <3>1 DEF Frame, UnderWay
    <2>2. call' = [c \in Calls |-> New(c)]
      BY DEF Take
    <2> QED
      BY <2>1, <2>2
  <1> QED
    BY <1>3, <1>4, <1>5, <1>6, <1>7

\* A reply leaves the queues and the loops well typed.
LEMMA ReplyType ==
  ASSUME NEW w \in [Pairs -> Seq(Msg)], NEW l \in [Pairs -> {"free", "drain"} \cup Calls],
         NEW d \in Nodes, NEW s \in Nodes, NEW m \in Msg, Reply(w, l, d, s, m)
  PROVE  /\ wire' \in [Pairs -> Seq(Msg)]
         /\ loop' \in [Pairs -> {"free", "drain"} \cup Calls]
PROOF
  <1>1. wire' \in [Pairs -> Seq(Msg)]
    BY PostType DEF Reply
  <1>2. <<d, s>> \in Pairs
    BY DEF Pairs
  <1>3. loop' \in [Pairs -> {"free", "drain"} \cup Calls]
    BY <1>2 DEF Reply
  <1> QED
    BY <1>1, <1>3

\* A call that returns has a well typed frame.
LEMMA ReturnType ==
  ASSUME TypeOK, NEW c \in Calls, NEW out \in Failures \cup {"ok"}, Return(c, out)
  PROVE  call' \in [Calls -> Frame]
PROOF
  <1>1. call[c] \in Frame
    BY DEF TypeOK
  <1>2. [call[c] EXCEPT !.at = "returned", !.out = out] \in Frame
    BY <1>1 DEF Frame, Failures
  <1>3. call' = [call EXCEPT ![c] = [call[c] EXCEPT !.at = "returned", !.out = out]]
    BY DEF Return, TypeOK
  <1> QED
    BY <1>2, <1>3 DEF TypeOK

\* The actions of the mesh and of a router's life preserve the type invariant.
LEMMA LifeType ==
  ASSUME TypeOK,
         Network \/ \E n \in Nodes : \/ Start(n) \/ Stop(n)
                                     \/ \E a \in announce[n] : AnnounceTo(n, a)
                                     \/ \E S \in SUBSET Tasks : Reload(n, S)
                                     \/ \E d \in Nodes : ForgetNode(n, d)
                                                         \/ QueryCapabilities(n, d)
  PROVE  TypeOK'
PROOF
  <1>1. ASSUME NEW l \in Links, Connect(l) PROVE TypeOK'
    BY <1>1 DEF Connect, TypeOK
  <1>2. ASSUME NEW l \in Links, Disconnect(l) PROVE TypeOK'
    <2>1. wire' \in [Pairs -> Seq(Msg)]
      BY <1>2 DEF Disconnect, TypeOK
    <2>2. loop' \in [Pairs -> {"free", "drain"} \cup Calls] /\ orphans' \subseteq Calls
      BY <1>2 DEF Disconnect, TypeOK
    <2>3. call' \in [Calls -> Frame]
      <3> DEFINE New(c) == IF call[c].at = "draining" /\ {CallerOf[c], call[c].dst} = l
                           THEN [call[c] EXCEPT !.at = "severed"] ELSE call[c]
      <3>1. ASSUME NEW c \in Calls PROVE New(c) \in Frame
        <4>1. call[c] \in Frame
          BY DEF TypeOK
        <4> QED
          BY <4>1 DEF Frame, UnderWay
      <3>2. call' = [c \in Calls |-> New(c)]
        BY <1>2 DEF Disconnect
      <3> QED
        BY <3>1, <3>2
    <2>4. up' \subseteq Links /\ events' \in 0..MaxEvents
      BY <1>2, RouterAssumption DEF Disconnect, Event, TypeOK, RouterAssumption
    <2> QED
      BY <1>2, <2>1, <2>2, <2>3, <2>4 DEF Disconnect, TypeOK
  <1>3. ASSUME NEW n \in Nodes, Start(n) PROVE TypeOK'
    <2> DEFINE Sent == {[to |-> d, caps |-> provides[n]] : d \in {e \in Nodes : Connected(n, e)}}
    <2>1. provides[n] \in SUBSET Tasks
      BY DEF TypeOK
    <2>2. Sent \in SUBSET [to : Nodes, caps : SUBSET Tasks]
      BY <2>1
    <2>3. announce' \in [Nodes -> SUBSET [to : Nodes, caps : SUBSET Tasks]]
      BY <1>3, <2>2 DEF Start, TypeOK
    <2> QED
      BY <1>3, <2>3 DEF Start, TypeOK
  <1>4. ASSUME NEW n \in Nodes, Stop(n) PROVE TypeOK'
    BY <1>4 DEF Stop, TypeOK, Settled
  <1>5. ASSUME NEW n \in Nodes, NEW a \in announce[n], AnnounceTo(n, a) PROVE TypeOK'
    <2>1. a \in [to : Nodes, caps : SUBSET Tasks]
      BY DEF TypeOK
    <2>2. Caps(a.caps) \in Msg /\ a.to \in Nodes
      BY <2>1, MessageTypes
    <2>3. wire' \in [Pairs -> Seq(Msg)]
      BY <1>5, <2>2, PostType DEF AnnounceTo, TypeOK
    <2>4. announce' \in [Nodes -> SUBSET [to : Nodes, caps : SUBSET Tasks]]
      BY <1>5 DEF AnnounceTo, TypeOK
    <2> QED
      BY <1>5, <2>3, <2>4 DEF AnnounceTo, TypeOK
  <1>6. ASSUME NEW n \in Nodes, NEW S \in SUBSET Tasks, Reload(n, S) PROVE TypeOK'
    <2>1. events' \in 0..MaxEvents
      BY <1>6, RouterAssumption DEF Reload, Event, TypeOK, RouterAssumption
    <2> QED
      BY <1>6, <2>1 DEF Reload, TypeOK
  <1>7. ASSUME NEW n \in Nodes, NEW d \in Nodes, ForgetNode(n, d) PROVE TypeOK'
    <2>1. events' \in 0..MaxEvents
      BY <1>7, RouterAssumption DEF ForgetNode, Event, TypeOK, RouterAssumption
    <2>2. known' \in [Nodes -> [Nodes -> SUBSET Tasks]]
      BY <1>7 DEF ForgetNode, TypeOK
    <2> QED
      BY <1>7, <2>1, <2>2 DEF ForgetNode, TypeOK
  <1>8. ASSUME NEW n \in Nodes, NEW d \in Nodes, QueryCapabilities(n, d) PROVE TypeOK'
    <2>1. events' \in 0..MaxEvents
      BY <1>8, RouterAssumption DEF QueryCapabilities, Event, TypeOK, RouterAssumption
    <2>2. wire' \in [Pairs -> Seq(Msg)]
      BY <1>8, MessageTypes, PostType DEF QueryCapabilities, TypeOK
    <2> QED
      BY <1>8, <2>1, <2>2 DEF QueryCapabilities, TypeOK
  <1> QED
    BY <1>1, <1>2, <1>3, <1>4, <1>5, <1>6, <1>7, <1>8 DEF Network

\* Taking and handling a frame preserves the type invariant.
LEMMA ReceiveType ==
  ASSUME TypeOK, NEW d \in Nodes, NEW s \in Nodes, Receive(d, s)
  PROVE  TypeOK'
PROOF
  <1> DEFINE m == Head(wire[<<s, d>>])
  <1>1. CASE Drop(d, s)
    BY <1>1, TakeType DEF Drop, TypeOK
  <1>2. CASE RunTask(d, s)
    <2>1. m \in Msg /\ m.call \in Calls
      BY <1>2, TakeType DEF RunTask, Msg
    <2>2. loop' \in [Pairs -> {"free", "drain"} \cup Calls]
      BY <1>2, <2>1, TakeType DEF RunTask
    <2> QED
      BY <1>2, <2>1, <2>2, TakeType DEF RunTask, TypeOK
  <1>3. CASE DeclineTask(d, s)
    <2>1. m \in Msg /\ m.call \in Calls
      BY <1>3, TakeType DEF DeclineTask, Msg
    <2>2. Answer("error", m.call) \in Msg
      BY <2>1, MessageTypes DEF Answers
    <2>3. /\ wire' \in [Pairs -> Seq(Msg)]
          /\ loop' \in [Pairs -> {"free", "drain"} \cup Calls]
          /\ call' \in [Calls -> Frame]
      BY <1>3, <2>2, TakeType, ReplyType DEF DeclineTask
    <2> QED
      BY <1>3, <2>3 DEF DeclineTask, TypeOK
  <1>4. CASE Resolve(d, s)
    <2>1. m \in Msg /\ m.call \in Calls /\ m.kind \in Answers
      BY <1>4, TakeType DEF Resolve, Msg
    <2>2. future' \in [Calls -> {"none", "waiting"} \cup Settled]
      BY <1>4, <2>1 DEF Resolve, Settled, TypeOK
    <2> QED
      BY <1>4, <2>2, TakeType DEF Resolve, TypeOK
  <1>5. CASE AnswerQuery(d, s)
    <2>1. Caps(provides[d]) \in Msg
      BY MessageTypes DEF TypeOK
    <2>2. /\ wire' \in [Pairs -> Seq(Msg)]
          /\ loop' \in [Pairs -> {"free", "drain"} \cup Calls]
          /\ call' \in [Calls -> Frame]
      BY <1>5, <2>1, TakeType, ReplyType DEF AnswerQuery
    <2> QED
      BY <1>5, <2>2 DEF AnswerQuery, TypeOK
  <1>6. CASE Learn(d, s)
    <2>1. m \in Msg /\ m.caps \in SUBSET Tasks
      BY <1>6, TakeType DEF Learn, Msg
    <2>2. known' \in [Nodes -> [Nodes -> SUBSET Tasks]]
      BY <1>6, <2>1 DEF Learn, TypeOK
    <2> QED
      BY <1>6, <2>2, TakeType DEF Learn, TypeOK
  <1> QED
    BY <1>1, <1>2, <1>3, <1>4, <1>5, <1>6 DEF Receive

\* Every step of a route_task, and of the agent that serves it, preserves the
\* type invariant.
LEMMA CallType ==
  ASSUME TypeOK, NEW c \in Calls, CallStep(c)
  PROVE  TypeOK'
PROOF
  <1> USE DEF Failures
  <1>1. call[c] \in Frame /\ CallerOf[c] \in Nodes
    BY RouterAssumption DEF TypeOK, RouterAssumption
  <1>2. CASE RefuseTask(c)
    <2>1. PICK out \in Failures : Return(c, out)
      BY <1>2 DEF RefuseTask
    <2>2. call' \in [Calls -> Frame]
      BY <2>1, ReturnType
    <2> QED
      BY <1>2, <2>2 DEF RefuseTask, TypeOK
  <1>3. ASSUME NEW d \in Nodes, RouteTask(c, d) PROVE TypeOK'
    <2>1. wire' \in [Pairs -> Seq(Msg)]
      BY <1>1, <1>3, PostType, MessageTypes DEF RouteTask, TypeOK
    <2>2. call' \in [Calls -> Frame]
      BY <1>3 DEF RouteTask, TypeOK, Frame, UnderWay
    <2> QED
      BY <1>3, <2>1, <2>2 DEF RouteTask, TypeOK
  <1>4. CASE SendBroken(c)
    <2>1. PICK out \in Failures : Return(c, out)
      BY <1>4 DEF SendBroken
    <2>2. call' \in [Calls -> Frame]
      BY <2>1, ReturnType
    <2> QED
      BY <1>4, <2>2 DEF SendBroken, TypeOK
  <1>5. CASE SendBelieved(c)
    <2>1. [call[c] EXCEPT !.at = "waiting"] \in Frame
      BY <1>1 DEF Frame, UnderWay
    <2>2. call' \in [Calls -> Frame]
      BY <1>5, <2>1 DEF SendBelieved, TypeOK
    <2> QED
      BY <1>5, <2>2 DEF SendBelieved, TypeOK
  <1>6. CASE Wake(c)
    <2>1. Outcome(future[c]) \in Failures \cup {"ok"}
      BY DEF Outcome
    <2>2. call' \in [Calls -> Frame]
      BY <1>6, <2>1, ReturnType DEF Wake
    <2> QED
      BY <1>6, <2>2 DEF Wake, TypeOK
  <1>7. CASE TimeOut(c)
    <2>1. call' \in [Calls -> Frame]
      BY <1>7, ReturnType DEF TimeOut
    <2> QED
      BY <1>7, <2>1 DEF TimeOut, TypeOK, Settled
  <1>8. CASE Evict(c)
    BY <1>8 DEF Evict, TypeOK, Settled
  <1>9. ASSUME NEW k \in Answers, AgentDone(c, k) PROVE TypeOK'
    <2>1. call[c].dst \in Nodes /\ Answer(k, c) \in Msg
      BY <1>1, MessageTypes DEF Frame
    <2>2. /\ wire' \in [Pairs -> Seq(Msg)]
          /\ loop' \in [Pairs -> {"free", "drain"} \cup Calls]
          /\ orphans' \subseteq Calls
      <3> DEFINE d == call[c].dst
                 a == Answer(k, c)
      <3>1. wire \in [Pairs -> Seq(Msg)] /\ loop \in [Pairs -> {"free", "drain"} \cup Calls]
        BY DEF TypeOK
      <3>2. CASE Reply(wire, loop, d, CallerOf[c], a) /\ UNCHANGED orphans
        <4> HIDE DEF a, d
        <4>1. a \in Msg /\ d \in Nodes
          BY <2>1 DEF a, d
        <4> QED
          BY <1>1, <3>1, <3>2, <4>1, ReplyType DEF TypeOK
      <3>3. CASE wire' = Post(wire, d, CallerOf[c], a) /\ loop' = loop /\ orphans' = orphans \ {c}
        BY <1>1, <2>1, <3>1, <3>3, PostType DEF TypeOK
      <3> QED
        BY <1>9, <3>2, <3>3 DEF AgentDone
    <2> QED
      BY <1>9, <2>2 DEF AgentDone, TypeOK
  <1> QED
    BY <1>2, <1>3, <1>4, <1>5, <1>6, <1>7, <1>8, <1>9 DEF CallStep

LEMMA TypeStep == TypeOK /\ [Next]_vars => TypeOK'
PROOF
  <1> SUFFICES ASSUME TypeOK, [Next]_vars PROVE TypeOK'
    OBVIOUS
  <1>1. CASE UNCHANGED vars
    BY <1>1 DEF vars, TypeOK
  <1>2. CASE Network
    BY <1>2, LifeType
  <1>3. ASSUME NEW n \in Nodes, NodeStep(n) PROVE TypeOK'
    BY <1>3, LifeType, ReceiveType DEF NodeStep
  <1>4. ASSUME NEW c \in Calls, CallStep(c) PROVE TypeOK'
    BY <1>4, CallType
  <1> QED
    BY <1>1, <1>2, <1>3, <1>4 DEF Next

\* TypeOK holds in every reachable state, for any number of nodes, calls and
\* tasks.
THEOREM TypeCorrect == Spec => []TypeOK
PROOF
  <1>1. Init => TypeOK
    <2> SUFFICES ASSUME Init PROVE TypeOK
      OBVIOUS
    <2>1. call \in [Calls -> Frame]
      BY RouterAssumption DEF Init, RouterAssumption, Frame
    <2>2. wire \in [Pairs -> Seq(Msg)]
      BY DEF Init
    <2> QED
      BY <2>1, <2>2, RouterAssumption DEF Init, TypeOK, RouterAssumption
  <1> QED
    BY <1>1, TypeStep, PTL DEF Spec

-----------------------------------------------------------------------------
(* The table of pending requests *)

\* The inductive invariant: an entry of the table is the unsettled future of
\* a route_task under way, and the other way round.
TableInv ==
  /\ \A c \in pending : call[c].at \in UnderWay /\ future[c] = "waiting"
  /\ \A n \in Nodes : Cardinality(PendingAt(n)) <= MaxPending
  /\ NoLostWaiter
  /\ StoppedIsEmpty

\* Removing entries keeps the table within its bound.
LEMMA FewerPending ==
  ASSUME TypeOK, TableInv, pending' \subseteq pending
  PROVE  \A n \in Nodes : Cardinality(PendingAt(n)') <= MaxPending
PROOF
  <1> SUFFICES ASSUME NEW n \in Nodes PROVE Cardinality(PendingAt(n)') <= MaxPending
    OBVIOUS
  <1>1. IsFiniteSet(PendingAt(n))
    BY RouterAssumption, FS_Subset DEF PendingAt, TypeOK, RouterAssumption
  <1>2. PendingAt(n)' \subseteq PendingAt(n)
    BY DEF PendingAt
  <1>3. /\ IsFiniteSet(PendingAt(n)')
        /\ Cardinality(PendingAt(n)') <= Cardinality(PendingAt(n))
    BY <1>1, <1>2, FS_Subset
  <1>4. Cardinality(PendingAt(n)) \in Nat /\ Cardinality(PendingAt(n)') \in Nat
    BY <1>1, <1>3, FS_CardinalityType
  <1>5. Cardinality(PendingAt(n)) <= MaxPending
    BY DEF TableInv
  <1> QED
    BY <1>3, <1>4, <1>5, RouterAssumption DEF RouterAssumption

\* A step that leaves the table and the futures alone preserves the
\* invariant if no call begins or returns.
LEMMA QuietStep ==
  ASSUME TypeOK, TableInv, UNCHANGED <<pending, future>>,
         \A n \in Nodes : router'[n] = "stopped" => router[n] = "stopped",
         \A c \in Calls : call'[c].at \in UnderWay <=> call[c].at \in UnderWay
  PROVE  TableInv'
PROOF
  <1>1. \A n \in Nodes : Cardinality(PendingAt(n)') <= MaxPending
    BY FewerPending
  <1>2. NoLostWaiter'
    BY DEF TableInv, NoLostWaiter
  <1>3. StoppedIsEmpty'
    BY DEF TableInv, StoppedIsEmpty, PendingAt
  <1>4. \A c \in pending' : call'[c].at \in UnderWay /\ future'[c] = "waiting"
    BY DEF TableInv, TypeOK
  <1> QED
    BY <1>1, <1>2, <1>3, <1>4 DEF TableInv, PendingAt

\* Reading a frame begins and ends no call.
LEMMA TakeQuiet ==
  ASSUME TypeOK, NEW d \in Nodes, NEW s \in Nodes, NEW K, Take(d, s, K)
  PROVE  \A c \in Calls : call'[c].at \in UnderWay <=> call[c].at \in UnderWay
PROOF
  <1> SUFFICES ASSUME NEW c \in Calls
               PROVE  call'[c].at \in UnderWay <=> call[c].at \in UnderWay
    OBVIOUS
  <1>1. call[c] \in Frame
    BY DEF TypeOK
  <1>2. \/ call'[c] = call[c]
        \/ call[c].at = "draining" /\ call'[c] = [call[c] EXCEPT !.at = "waiting"]
    BY DEF Take
  <1> QED
    BY <1>1, <1>2 DEF Frame, UnderWay

\* Losing a connection begins and ends no call.
LEMMA DisconnectQuiet ==
  ASSUME TypeOK, NEW k \in Links, Disconnect(k)
  PROVE  \A c \in Calls : call'[c].at \in UnderWay <=> call[c].at \in UnderWay
PROOF
  <1> SUFFICES ASSUME NEW c \in Calls
               PROVE  call'[c].at \in UnderWay <=> call[c].at \in UnderWay
    OBVIOUS
  <1>1. call[c] \in Frame
    BY DEF TypeOK
  <1>2. \/ call'[c] = call[c]
        \/ call[c].at = "draining" /\ call'[c] = [call[c] EXCEPT !.at = "severed"]
    BY DEF Disconnect
  <1> QED
    BY <1>1, <1>2 DEF Frame, UnderWay

\* The call that returns is the only one whose frame changes.
LEMMA ReturnFrame ==
  ASSUME TypeOK, NEW c \in Calls, NEW out, Return(c, out)
  PROVE  /\ call'[c].at = "returned" /\ call'[c].out = out
         /\ call'[c].at \notin UnderWay
         /\ \A e \in Calls \ {c} : call'[e] = call[e]
PROOF
  <1>1. call[c] \in Frame
    BY DEF TypeOK
  <1> QED
    BY <1>1 DEF Return, TypeOK, Frame, UnderWay

\* A step that changes the frame or the entry of call c alone, without adding
\* the entry, preserves the invariant if it does for c.
LEMMA OneCall ==
  ASSUME TypeOK, TableInv, NEW c \in Calls, UNCHANGED router,
         pending' \subseteq pending, pending \ {c} \subseteq pending',
         \A e \in Calls \ {c} : call'[e] = call[e] /\ future'[e] = future[e],
         c \in pending' => call'[c].at \in UnderWay /\ future'[c] = "waiting",
         call'[c].at \in UnderWay /\ c \notin pending' => future'[c] \in Settled
  PROVE  TableInv'
PROOF
  <1>1. \A n \in Nodes : Cardinality(PendingAt(n)') <= MaxPending
    BY FewerPending
  <1>2. \A e \in pending' : call'[e].at \in UnderWay /\ future'[e] = "waiting"
    BY DEF TableInv, TypeOK
  <1>3. NoLostWaiter'
    BY DEF TableInv, NoLostWaiter
  <1>4. StoppedIsEmpty'
    BY DEF TableInv, StoppedIsEmpty, PendingAt
  <1> QED
    BY <1>1, <1>2, <1>3, <1>4 DEF TableInv, PendingAt

\* Handling a frame preserves the invariant: only an answer touches the table.
LEMMA ReceiveTable ==
  ASSUME TypeOK, TableInv, NEW d \in Nodes, NEW s \in Nodes, Receive(d, s)
  PROVE  TableInv'
PROOF
  <1>1. CASE Drop(d, s)
    BY <1>1, TakeQuiet, QuietStep DEF Drop
  <1>2. CASE RunTask(d, s)
    BY <1>2, TakeQuiet, QuietStep DEF RunTask
  <1>3. CASE DeclineTask(d, s)
    BY <1>3, TakeQuiet, QuietStep DEF DeclineTask
  <1>4. CASE Resolve(d, s)
    <2> DEFINE m == Head(wire[<<s, d>>])
    <2>1. m.call \in Calls /\ m.kind \in Answers
      BY <1>4, TakeType DEF Resolve, Msg
    <2>2. \A c \in Calls : call'[c].at \in UnderWay <=> call[c].at \in UnderWay
      BY <1>4, TakeQuiet DEF Resolve
    <2>3. /\ pending' = pending \ {m.call} /\ UNCHANGED router
          /\ future' = IF m.call \in pending THEN [future EXCEPT ![m.call] = m.kind] ELSE future
      BY <1>4 DEF Resolve
    <2> HIDE DEF m
    <2>4. \A n \in Nodes : Cardinality(PendingAt(n)') <= MaxPending
      BY <2>3, FewerPending
    <2>5. \A c \in pending' : call'[c].at \in UnderWay /\ future'[c] = "waiting"
      BY <2>2, <2>3 DEF TableInv, TypeOK
    <2>6. NoLostWaiter'
      BY <2>1, <2>2, <2>3 DEF TableInv, NoLostWaiter, Settled, TypeOK
    <2>7. StoppedIsEmpty'
      BY <2>3 DEF TableInv, StoppedIsEmpty, PendingAt
    <2> QED
      BY <2>4, <2>5, <2>6, <2>7 DEF TableInv, PendingAt
  <1>5. CASE AnswerQuery(d, s)
    BY <1>5, TakeQuiet, QuietStep DEF AnswerQuery
  <1>6. CASE Learn(d, s)
    BY <1>6, TakeQuiet, QuietStep DEF Learn
  <1> QED
    BY <1>1, <1>2, <1>3, <1>4, <1>5, <1>6 DEF Receive

\* Every step of a route_task preserves the invariant.
LEMMA CallTable ==
  ASSUME TypeOK, TableInv, NEW c \in Calls, CallStep(c)
  PROVE  TableInv'
PROOF
  <1>1. CASE RefuseTask(c)
    <2>1. PICK out : Return(c, out)
      BY <1>1 DEF RefuseTask
    <2>2. call[c].at = "idle" /\ UNCHANGED <<router, pending, future>>
      BY <1>1 DEF RefuseTask
    <2>3. c \notin pending
      BY <2>2 DEF TableInv, UnderWay
    <2> QED
      BY <2>1, <2>2, <2>3, ReturnFrame, OneCall
  <1>2. ASSUME NEW d \in Nodes, RouteTask(c, d) PROVE TableInv'
    <2>1. /\ call[c].at = "idle" /\ Running(CallerOf[c]) /\ ~Full(CallerOf[c])
          /\ pending' = pending \cup {c} /\ UNCHANGED router
          /\ future' = [future EXCEPT ![c] = "waiting"]
      BY <1>2 DEF RouteTask
    <2>2. c \notin pending
      BY <2>1 DEF TableInv, UnderWay
    <2>3. /\ call'[c].at \in UnderWay
          /\ \A e \in Calls \ {c} : call'[e] = call[e]
      BY <1>2 DEF RouteTask, TypeOK, UnderWay
    <2>4. \A n \in Nodes : Cardinality(PendingAt(n)') <= MaxPending
      <3> SUFFICES ASSUME NEW n \in Nodes PROVE Cardinality(PendingAt(n)') <= MaxPending
        OBVIOUS
      <3>1. IsFiniteSet(PendingAt(n))
        BY RouterAssumption, FS_Subset DEF PendingAt, TypeOK, RouterAssumption
      <3>2. Cardinality(PendingAt(n)) \in Nat /\ Cardinality(PendingAt(n)) <= MaxPending
        BY <3>1, FS_CardinalityType DEF TableInv
      <3>3. CASE n = CallerOf[c]
        <4>1. PendingAt(n)' = PendingAt(n) \cup {c} /\ c \notin PendingAt(n)
          BY <2>1, <2>2, <3>3 DEF PendingAt
        <4>2. Cardinality(PendingAt(n)') = Cardinality(PendingAt(n)) + 1
          BY <3>1, <4>1, FS_AddElement
        <4>3. ~(Cardinality(PendingAt(n)) >= MaxPending)
          BY <2>1, <3>3 DEF Full
        <4> QED
          BY <3>2, <4>2, <4>3, RouterAssumption DEF RouterAssumption
      <3>4. CASE n # CallerOf[c]
        <4>1. PendingAt(n)' = PendingAt(n)
          BY <2>1, <3>4 DEF PendingAt
        <4> QED
          BY <3>2, <4>1
      <3> QED
        BY <3>3, <3>4
    <2>5. \A e \in pending' : call'[e].at \in UnderWay /\ future'[e] = "waiting"
      BY <2>1, <2>3 DEF TableInv, TypeOK
    <2>6. NoLostWaiter'
      BY <2>1, <2>3 DEF TableInv, NoLostWaiter, TypeOK
    <2>7. StoppedIsEmpty'
      BY <2>1 DEF TableInv, StoppedIsEmpty, PendingAt, Running
    <2> QED
      BY <2>4, <2>5, <2>6, <2>7 DEF TableInv, PendingAt
  <1>3. CASE SendBroken(c)
    <2>1. PICK out : Return(c, out)
      BY <1>3 DEF SendBroken
    <2> QED
      BY <1>3, <2>1, ReturnFrame, OneCall DEF SendBroken
  <1>4. CASE SendBelieved(c)
    <2>1. call[c] \in Frame
      BY DEF TypeOK
    <2>2. \A e \in Calls : call'[e].at \in UnderWay <=> call[e].at \in UnderWay
      BY <1>4, <2>1 DEF SendBelieved, TypeOK, Frame, UnderWay
    <2> QED
      BY <1>4, <2>2, QuietStep DEF SendBelieved
  <1>5. CASE Wake(c)
    <2>1. Return(c, Outcome(future[c])) /\ c \notin pending
      BY <1>5 DEF Wake, TableInv, Settled, Answers
    <2> QED
      BY <1>5, <2>1, ReturnFrame, OneCall DEF Wake
  <1>6. CASE TimeOut(c)
    <2>1. /\ Return(c, "timeout") /\ pending' = pending \ {c} /\ UNCHANGED router
          /\ \A e \in Calls \ {c} : future'[e] = future[e]
      BY <1>6 DEF TimeOut, TypeOK
    <2> QED
      BY <2>1, ReturnFrame, OneCall
  <1>7. CASE Evict(c)
    <2>1. /\ pending' = pending \ {c} /\ UNCHANGED <<router, call>>
          /\ future'[c] \in Settled
          /\ \A e \in Calls \ {c} : future'[e] = future[e]
      BY <1>7 DEF Evict, TypeOK, Settled
    <2> QED
      BY <2>1, OneCall
  <1>8. ASSUME NEW k \in Answers, AgentDone(c, k) PROVE TableInv'
    BY <1>8, QuietStep DEF AgentDone
  <1> QED
    BY <1>1, <1>2, <1>3, <1>4, <1>5, <1>6, <1>7, <1>8 DEF CallStep

LEMMA TableStep == TypeOK /\ TableInv /\ [Next]_vars => TableInv'
PROOF
  <1> SUFFICES ASSUME TypeOK, TableInv, [Next]_vars PROVE TableInv'
    OBVIOUS
  <1>1. CASE UNCHANGED vars
    BY <1>1, QuietStep DEF vars
  <1>2. ASSUME NEW k \in Links, Connect(k) \/ Disconnect(k) PROVE TableInv'
    <2>1. CASE Connect(k)
      BY <2>1, QuietStep DEF Connect
    <2>2. CASE Disconnect(k)
      BY <2>2, DisconnectQuiet, QuietStep DEF Disconnect
    <2> QED
      BY <1>2, <2>1, <2>2
  <1>3. ASSUME NEW n \in Nodes, NodeStep(n) PROVE TableInv'
    <2>1. CASE Start(n)
      <3>1. \A e \in Nodes : router'[e] = "stopped" => router[e] = "stopped"
        BY <2>1 DEF Start, TypeOK
      <3> QED
        BY <2>1, <3>1, QuietStep DEF Start
    <2>2. CASE Stop(n)
      <3>1. /\ pending' = pending \ PendingAt(n) /\ UNCHANGED call
            /\ future' = [c \in Calls |-> IF c \in PendingAt(n) THEN "cancelled" ELSE future[c]]
            /\ router' = [router EXCEPT ![n] = "stopped"]
        BY <2>2 DEF Stop
      <3>2. \A e \in Nodes : Cardinality(PendingAt(e)') <= MaxPending
        BY <3>1, FewerPending
      <3>3. \A c \in pending' : call'[c].at \in UnderWay /\ future'[c] = "waiting"
        BY <3>1 DEF TableInv, TypeOK
      <3>4. NoLostWaiter'
        BY <3>1 DEF TableInv, NoLostWaiter, Settled, PendingAt
      <3>5. StoppedIsEmpty'
        BY <3>1 DEF TableInv, StoppedIsEmpty, PendingAt, TypeOK
      <3> QED
        BY <3>2, <3>3, <3>4, <3>5 DEF TableInv, PendingAt
    <2>3. ASSUME NEW a \in announce[n], AnnounceTo(n, a) PROVE TableInv'
      BY <2>3, QuietStep DEF AnnounceTo
    <2>4. ASSUME NEW S \in SUBSET Tasks, Reload(n, S) PROVE TableInv'
      BY <2>4, QuietStep DEF Reload
    <2>5. ASSUME NEW d \in Nodes, ForgetNode(n, d) PROVE TableInv'
      BY <2>5, QuietStep DEF ForgetNode
    <2>6. ASSUME NEW d \in Nodes, QueryCapabilities(n, d) PROVE TableInv'
      BY <2>6, QuietStep DEF QueryCapabilities
    <2> QED
      BY <1>3, <2>1, <2>2, <2>3, <2>4, <2>5, <2>6, ReceiveTable DEF NodeStep
  <1>4. ASSUME NEW c \in Calls, CallStep(c) PROVE TableInv'
    BY <1>4, CallTable
  <1> QED
    BY <1>1, <1>2, <1>3, <1>4 DEF Next, Network

LEMMA TableAlways == Spec => []TableInv
PROOF
  <1>1. Init => TableInv
    <2> SUFFICES ASSUME Init PROVE TableInv
      OBVIOUS
    <2>1. \A n \in Nodes : PendingAt(n) = {}
      BY DEF Init, PendingAt
    <2>2. \A n \in Nodes : Cardinality(PendingAt(n)) <= MaxPending
      <3>1. Cardinality({}) = 0
        BY FS_EmptySet
      <3>2. 0 <= MaxPending
        BY RouterAssumption DEF RouterAssumption
      <3> QED
        BY <2>1, <3>1, <3>2
    <2>3. \A c \in Calls : call[c].at \notin UnderWay
      BY DEF Init, UnderWay
    <2> QED
      BY <2>1, <2>2, <2>3 DEF Init, TableInv, NoLostWaiter, StoppedIsEmpty
  <1> QED
    BY <1>1, TableStep, TypeCorrect, PTL DEF Spec

\* However answers, timeouts, evictions, lost connections and stop() race, the
\* table stays within MAX_PENDING and no request outlives its route_task.
THEOREM NothingLeaks == Spec => []NoLeakedRequest
PROOF
  <1>1. TableInv => NoLeakedRequest
    BY DEF TableInv, NoLeakedRequest
  <1> QED
    BY <1>1, TableAlways, PTL

\* No route_task waits for a request that has left the table unsettled.
THEOREM NobodyForgotten == Spec => []NoLostWaiter
PROOF
  <1>1. TableInv => NoLostWaiter
    BY DEF TableInv
  <1> QED
    BY <1>1, TableAlways, PTL

\* The table of a stopped router stays empty.
THEOREM StopEmpties == Spec => []StoppedIsEmpty
PROOF
  <1>1. TableInv => StoppedIsEmpty
    BY DEF TableInv
  <1> QED
    BY <1>1, TableAlways, PTL

-----------------------------------------------------------------------------
(* route_task implements RemoteCall *)

Begun == {c \in Calls : call[c].at # "idle"}

Asks(m, c) == m.kind = "request" /\ m.call = c

\* The frames of the queues w fit the set ex of executed calls and the set bg
\* of begun ones: an agent's answer is that of an executed call, and a request
\* in a queue is that of a begun call not yet executed.
Sound(w, ex, bg) ==
  \A p \in Pairs : \A i \in 1..Len(w[p]) :
    /\ w[p][i].kind \in {"data", "fault"} => w[p][i].call \in ex
    /\ w[p][i].kind = "request" => w[p][i].call \notin ex /\ w[p][i].call \in bg

\* No call has two requests in the queues w.
Once(w) ==
  \A p, q \in Pairs : \A i \in 1..Len(w[p]), j \in 1..Len(w[q]) : \A c \in Calls :
    Asks(w[p][i], c) /\ Asks(w[q][j], c) => p = q /\ i = j

ExecInv ==
  /\ \A p \in Pairs : loop[p] \in Calls => loop[p] \in executed
  /\ orphans \subseteq executed
  /\ \A c \in Calls : future[c] \in {"data", "fault"} => c \in executed
  /\ executed \subseteq Begun
  /\ \A c \in Calls : call[c].at = "idle" => call[c].out = "none"
  /\ Sound(wire, executed, Begun)
  /\ Once(wire)

\* The frames of the queues after a write.
LEMMA PostFrames ==
  ASSUME NEW w \in [Pairs -> Seq(Msg)], NEW s \in Nodes, NEW d \in Nodes, NEW m \in Msg,
         NEW p \in Pairs, NEW i \in 1..Len(Post(w, s, d, m)[p])
  PROVE  \/ i \in 1..Len(w[p]) /\ Post(w, s, d, m)[p][i] = w[p][i]
         \/ p = <<s, d>> /\ i = Len(w[p]) + 1 /\ Post(w, s, d, m)[p][i] = m
PROOF
  <1>1. <<s, d>> \in Pairs /\ w[p] \in Seq(Msg)
    BY DEF Pairs
  <1>2. CASE Post(w, s, d, m)[p] = w[p]
    BY <1>2
  <1>3. CASE p = <<s, d>> /\ Post(w, s, d, m)[p] = Append(w[p], m)
    BY <1>1, <1>3
  <1> QED
    BY <1>1, <1>2, <1>3 DEF Post

LEMMA PostSound ==
  ASSUME NEW w \in [Pairs -> Seq(Msg)], NEW s \in Nodes, NEW d \in Nodes, NEW m \in Msg,
         NEW ex, NEW bg, Sound(w, ex, bg),
         m.kind \in {"data", "fault"} => m.call \in ex,
         m.kind = "request" => m.call \notin ex /\ m.call \in bg
  PROVE  Sound(Post(w, s, d, m), ex, bg)
PROOF
  BY PostFrames DEF Sound

LEMMA PostOnce ==
  ASSUME NEW w \in [Pairs -> Seq(Msg)], NEW s \in Nodes, NEW d \in Nodes, NEW m \in Msg,
         Once(w),
         \A p \in Pairs : \A i \in 1..Len(w[p]) : \A c \in Calls :
           ~(Asks(m, c) /\ Asks(w[p][i], c))
  PROVE  Once(Post(w, s, d, m))
PROOF
  <1> DEFINE v == Post(w, s, d, m)
  <1> SUFFICES ASSUME NEW p \in Pairs, NEW q \in Pairs, NEW i \in 1..Len(v[p]),
                      NEW j \in 1..Len(v[q]), NEW c \in Calls,
                      Asks(v[p][i], c), Asks(v[q][j], c)
               PROVE  p = q /\ i = j
    BY DEF Once
  <1>1. \/ i \in 1..Len(w[p]) /\ v[p][i] = w[p][i]
        \/ p = <<s, d>> /\ i = Len(w[p]) + 1 /\ v[p][i] = m
    BY PostFrames
  <1>2. \/ j \in 1..Len(w[q]) /\ v[q][j] = w[q][j]
        \/ q = <<s, d>> /\ j = Len(w[q]) + 1 /\ v[q][j] = m
    BY PostFrames
  <1> HIDE DEF v
  <1>3. Asks(v[p][i], c) /\ Asks(v[q][j], c)
    OBVIOUS
  <1>4. CASE i \in 1..Len(w[p]) /\ v[p][i] = w[p][i] /\ j \in 1..Len(w[q]) /\ v[q][j] = w[q][j]
    BY <1>3, <1>4 DEF Once
  <1>5. CASE p = q /\ i = Len(w[p]) + 1 /\ j = Len(w[q]) + 1
    BY <1>5
  <1>6. CASE i \in 1..Len(w[p]) /\ v[p][i] = w[p][i] /\ v[q][j] = m
    BY <1>3, <1>6
  <1>7. CASE j \in 1..Len(w[q]) /\ v[q][j] = w[q][j] /\ v[p][i] = m
    BY <1>3, <1>7
  <1> QED
    BY <1>1, <1>2, <1>4, <1>5, <1>6, <1>7

\* The frames of the queues after a read, and the frame that was read.
LEMMA RestFrames ==
  ASSUME TypeOK, NEW d \in Nodes, NEW s \in Nodes, wire[<<s, d>>] # <<>>,
         NEW p \in Pairs, NEW i \in 1..Len(Rest(d, s)[p])
  PROVE  \/ p # <<s, d>> /\ i \in 1..Len(wire[p]) /\ Rest(d, s)[p][i] = wire[p][i]
         \/ p = <<s, d>> /\ i + 1 \in 2..Len(wire[p]) /\ Rest(d, s)[p][i] = wire[p][i + 1]
PROOF
  <1>1. <<s, d>> \in Pairs /\ wire[p] \in Seq(Msg)
    BY DEF Pairs, TypeOK
  <1>2. CASE p # <<s, d>>
    <2>1. Rest(d, s)[p] = wire[p]
      BY <1>2 DEF Rest, TypeOK
    <2> QED
      BY <1>2, <2>1
  <1>3. CASE p = <<s, d>>
    <2>1. Rest(d, s)[p] = Tail(wire[p])
      BY <1>1, <1>3 DEF Rest, TypeOK
    <2> QED
      BY <1>1, <1>3, <2>1
  <1> QED
    BY <1>2, <1>3

LEMMA HeadFrame ==
  ASSUME TypeOK, NEW d \in Nodes, NEW s \in Nodes, wire[<<s, d>>] # <<>>
  PROVE  /\ <<s, d>> \in Pairs /\ 1 \in 1..Len(wire[<<s, d>>])
         /\ Head(wire[<<s, d>>]) = wire[<<s, d>>][1]
PROOF
  <1>1. <<s, d>> \in Pairs
    BY DEF Pairs
  <1>2. wire[<<s, d>>] \in Seq(Msg)
    BY <1>1 DEF TypeOK
  <1> QED
    BY <1>1, <1>2

LEMMA RestSound ==
  ASSUME TypeOK, NEW d \in Nodes, NEW s \in Nodes, wire[<<s, d>>] # <<>>,
         Sound(wire, executed, Begun), Once(wire)
  PROVE  Sound(Rest(d, s), executed, Begun) /\ Once(Rest(d, s))
PROOF
  <1>1. Sound(Rest(d, s), executed, Begun)
    BY RestFrames DEF Sound
  <1>2. Once(Rest(d, s))
    <2> DEFINE v == Rest(d, s)
    <2> SUFFICES ASSUME NEW p \in Pairs, NEW q \in Pairs, NEW i \in 1..Len(v[p]),
                        NEW j \in 1..Len(v[q]), NEW c \in Calls,
                        Asks(v[p][i], c), Asks(v[q][j], c)
                 PROVE  p = q /\ i = j
      BY DEF Once
    <2>1. \/ p # <<s, d>> /\ i \in 1..Len(wire[p]) /\ v[p][i] = wire[p][i]
          \/ p = <<s, d>> /\ i + 1 \in 1..Len(wire[p]) /\ v[p][i] = wire[p][i + 1]
      BY RestFrames
    <2>2. \/ q # <<s, d>> /\ j \in 1..Len(wire[q]) /\ v[q][j] = wire[q][j]
          \/ q = <<s, d>> /\ j + 1 \in 1..Len(wire[q]) /\ v[q][j] = wire[q][j + 1]
      BY RestFrames
    <2> HIDE DEF v
    <2> QED
      BY <2>1, <2>2 DEF Once
  <1> QED
    BY <1>1, <1>2

\* A request that is read is in no queue afterwards.
LEMMA RestGone ==
  ASSUME TypeOK, NEW d \in Nodes, NEW s \in Nodes, wire[<<s, d>>] # <<>>, Once(wire),
         NEW c \in Calls, Asks(Head(wire[<<s, d>>]), c),
         NEW p \in Pairs, NEW i \in 1..Len(Rest(d, s)[p])
  PROVE  ~Asks(Rest(d, s)[p][i], c)
PROOF
  <1>1. \/ p # <<s, d>> /\ i \in 1..Len(wire[p]) /\ Rest(d, s)[p][i] = wire[p][i]
        \/ p = <<s, d>> /\ i + 1 \in 2..Len(wire[p]) /\ Rest(d, s)[p][i] = wire[p][i + 1]
    BY RestFrames
  <1>2. /\ <<s, d>> \in Pairs /\ 1 \in 1..Len(wire[<<s, d>>])
        /\ Asks(wire[<<s, d>>][1], c)
    BY HeadFrame
  <1> QED
    BY <1>1, <1>2 DEF Once

\* A call that has begun stays begun.
LEMMA BegunGrows ==
  ASSUME TypeOK, \A c \in Calls : call'[c].at = "idle" => call'[c] = call[c]
  PROVE  Begun \subseteq Begun'
PROOF
  BY DEF Begun

LEMMA SoundGrows ==
  ASSUME NEW w, NEW ex, NEW bg, NEW bh, bg \subseteq bh, Sound(w, ex, bg)
  PROVE  Sound(w, ex, bh)
PROOF
  BY DEF Sound

\* A step that writes at most one frame, which is not a request, and settles
\* no future with an answer.
LEMMA SafeStep ==
  ASSUME TypeOK, ExecInv, UNCHANGED executed, orphans' \subseteq executed,
         \A p \in Pairs : loop'[p] \in Calls => loop'[p] \in executed,
         \A c \in Calls : future'[c] \in {"data", "fault"} => c \in executed,
         \A c \in Calls : call'[c].at = "idle" => call'[c] = call[c],
         Sound(wire', executed, Begun), Once(wire')
  PROVE  ExecInv'
PROOF
  <1>1. Begun \subseteq Begun'
    BY BegunGrows
  <1>2. Sound(wire', executed, Begun')
    BY <1>1, SoundGrows
  <1>3. Sound(wire, executed, Begun)'
    BY <1>2 DEF Sound
  <1>4. Once(wire)'
    BY DEF Once, Asks
  <1> QED
    BY <1>1, <1>3, <1>4 DEF ExecInv

\* Writing a message that is not a request.
LEMMA PostSafe ==
  ASSUME NEW w \in [Pairs -> Seq(Msg)], NEW s \in Nodes, NEW d \in Nodes, NEW m \in Msg,
         Sound(w, executed, Begun), Once(w), m.kind # "request",
         m.kind \in {"data", "fault"} => m.call \in executed
  PROVE  Sound(Post(w, s, d, m), executed, Begun) /\ Once(Post(w, s, d, m))
PROOF
  <1>1. Sound(Post(w, s, d, m), executed, Begun)
    BY PostSound
  <1>2. Once(Post(w, s, d, m))
    BY PostOnce DEF Asks
  <1> QED
    BY <1>1, <1>2

\* No step of a receive loop makes a call idle or busies a loop with a call
\* that was not executed.
LEMMA TakeSafe ==
  ASSUME TypeOK, ExecInv, NEW d \in Nodes, NEW s \in Nodes, NEW K, Take(d, s, K)
  PROVE  /\ \A c \in Calls : call'[c].at = "idle" => call'[c] = call[c]
         /\ \A p \in Pairs : Relieved(d, s)[p] \in Calls => Relieved(d, s)[p] \in executed
         /\ Sound(Rest(d, s), executed, Begun) /\ Once(Rest(d, s))
         /\ Head(wire[<<s, d>>]).kind \in {"data", "fault"} =>
              Head(wire[<<s, d>>]).call \in executed
PROOF
  <1>1. \A c \in Calls : call'[c].at = "idle" => call'[c] = call[c]
    <2> SUFFICES ASSUME NEW c \in Calls, call'[c].at = "idle" PROVE call'[c] = call[c]
      OBVIOUS
    <2>1. call[c] \in Frame
      BY DEF TypeOK
    <2>2. \/ call'[c] = call[c]
          \/ call'[c] = [call[c] EXCEPT !.at = "waiting"]
      BY DEF Take
    <2> QED
      BY <2>1, <2>2 DEF Frame
  <1>2. \A p \in Pairs : Relieved(d, s)[p] \in Calls => Relieved(d, s)[p] \in executed
    BY RouterAssumption DEF Relieved, ExecInv, TypeOK, RouterAssumption
  <1>3. wire[<<s, d>>] # <<>>
    BY DEF Take
  <1>4. Sound(Rest(d, s), executed, Begun) /\ Once(Rest(d, s))
    BY <1>3, RestSound DEF ExecInv
  <1>5. /\ <<s, d>> \in Pairs /\ 1 \in 1..Len(wire[<<s, d>>])
        /\ Head(wire[<<s, d>>]) = wire[<<s, d>>][1]
    BY <1>3, HeadFrame
  <1>6. Head(wire[<<s, d>>]).kind \in {"data", "fault"} => Head(wire[<<s, d>>]).call \in executed
    BY <1>5 DEF ExecInv, Sound
  <1> QED
    BY <1>1, <1>2, <1>4, <1>6

\* A reply from a receive loop.
LEMMA ReplySafe ==
  ASSUME NEW w \in [Pairs -> Seq(Msg)], NEW l \in [Pairs -> {"free", "drain"} \cup Calls],
         NEW d \in Nodes, NEW s \in Nodes, NEW m \in Msg, Reply(w, l, d, s, m),
         \A p \in Pairs : l[p] \in Calls => l[p] \in executed,
         Sound(w, executed, Begun), Once(w), m.kind # "request",
         m.kind \in {"data", "fault"} => m.call \in executed
  PROVE  /\ \A p \in Pairs : loop'[p] \in Calls => loop'[p] \in executed
         /\ Sound(wire', executed, Begun) /\ Once(wire')
PROOF
  <1>1. Sound(wire', executed, Begun) /\ Once(wire')
    BY PostSafe DEF Reply
  <1>2. \A p \in Pairs : loop'[p] \in Calls => loop'[p] \in executed
    BY RouterAssumption DEF Reply, RouterAssumption
  <1> QED
    BY <1>1, <1>2

\* Handling a frame preserves ExecInv.  An agent is given a request that was
\* not executed before.
LEMMA ReceiveExec ==
  ASSUME TypeOK, TableInv, ExecInv, NEW d \in Nodes, NEW s \in Nodes, Receive(d, s)
  PROVE  ExecInv'
PROOF
  <1> DEFINE m == Head(wire[<<s, d>>])
             old == \A c \in Calls : future[c] \in {"data", "fault"} => c \in executed
  <1>1. old /\ orphans \subseteq executed
    BY DEF ExecInv
  <1>2. CASE Drop(d, s)
    BY <1>1, <1>2, TakeSafe, SafeStep DEF Drop
  <1>3. CASE RunTask(d, s)
    <2>1. /\ Take(d, s, {"request"}) /\ wire' = Rest(d, s)
          /\ executed' = executed \cup {m.call}
          /\ loop' = [Relieved(d, s) EXCEPT ![<<d, s>>] = m.call]
          /\ UNCHANGED <<orphans, future>>
      BY <1>3 DEF RunTask
    <2>2. m.call \in Calls /\ m.kind = "request"
      BY <2>1, TakeType DEF Msg
    <2>3. wire[<<s, d>>] # <<>>
      BY <2>1 DEF Take
    <2>4. m.call \in Begun
      BY <2>2, <2>3, HeadFrame DEF ExecInv, Sound
    <2>5. Begun \subseteq Begun'
      BY <2>1, TakeSafe, BegunGrows
    <2>6. Sound(Rest(d, s), executed, Begun) /\ Once(Rest(d, s))
      BY <2>1, TakeSafe
    <2>7. \A p \in Pairs : \A i \in 1..Len(Rest(d, s)[p]) : ~Asks(Rest(d, s)[p][i], m.call)
      BY <2>2, <2>3, RestGone DEF ExecInv, Asks
    <2>8. Sound(Rest(d, s), executed \cup {m.call}, Begun')
      <3> SUFFICES ASSUME NEW p \in Pairs, NEW i \in 1..Len(Rest(d, s)[p])
                   PROVE  LET f == Rest(d, s)[p][i] IN
                          /\ f.kind \in {"data", "fault"} => f.call \in executed \cup {m.call}
                          /\ f.kind = "request" =>
                               f.call \notin executed \cup {m.call} /\ f.call \in Begun'
        BY DEF Sound
      <3>1. ~Asks(Rest(d, s)[p][i], m.call)
        BY <2>7
      <3> QED
        BY <2>5, <2>6, <3>1 DEF Sound, Asks
    <2>9. \A p \in Pairs : loop'[p] \in Calls => loop'[p] \in executed'
      BY <2>1, <2>2, TakeSafe, TakeType
    <2>10. Sound(wire, executed, Begun)' /\ Once(wire)'
      BY <2>1, <2>6, <2>8 DEF Sound, Once, Asks
    <2>11. \A c \in Calls : call'[c].at = "idle" => call'[c] = call[c]
      BY <2>1, TakeSafe
    <2> QED
      BY <1>1, <2>1, <2>4, <2>5, <2>9, <2>10, <2>11 DEF ExecInv
  <1>4. CASE DeclineTask(d, s)
    <2> DEFINE a == Answer("error", m.call)
    <2>1. /\ Take(d, s, {"request"}) /\ Reply(Rest(d, s), Relieved(d, s), d, s, a)
          /\ UNCHANGED <<executed, orphans, future>>
      BY <1>4 DEF DeclineTask
    <2>2. m \in Msg
      BY <2>1, TakeType
    <2>3. a \in Msg /\ a.kind = "error"
      BY <2>2, MessageTypes DEF Answer, Msg, Answers
    <2> HIDE DEF a, m
    <2>4. /\ \A p \in Pairs : loop'[p] \in Calls => loop'[p] \in executed
          /\ Sound(wire', executed, Begun) /\ Once(wire')
      BY <2>1, <2>3, TakeType, TakeSafe, ReplySafe
    <2> QED
      BY <1>1, <2>1, <2>4, TakeSafe, SafeStep
  <1>5. CASE Resolve(d, s)
    <2>1. /\ Take(d, s, Answers) /\ wire' = Rest(d, s) /\ loop' = Relieved(d, s)
          /\ UNCHANGED <<executed, orphans>>
          /\ future' = IF m.call \in pending THEN [future EXCEPT ![m.call] = m.kind] ELSE future
      BY <1>5 DEF Resolve
    <2>2. m.kind \in {"data", "fault"} => m.call \in executed
      BY <2>1, TakeSafe
    <2>3. m.call \in Calls
      BY <2>1, TakeType DEF Msg
    <2>4. \A c \in Calls : future'[c] \in {"data", "fault"} => c \in executed
      BY <1>1, <2>1, <2>2, <2>3 DEF TypeOK
    <2> QED
      BY <1>1, <2>1, <2>4, TakeSafe, SafeStep
  <1>6. CASE AnswerQuery(d, s)
    <2> DEFINE a == Caps(provides[d])
    <2>1. /\ Take(d, s, {"query"}) /\ Reply(Rest(d, s), Relieved(d, s), d, s, a)
          /\ UNCHANGED <<executed, orphans, future>>
      BY <1>6 DEF AnswerQuery
    <2>2. a \in Msg /\ a.kind = "caps"
      BY MessageTypes DEF Caps, TypeOK
    <2> HIDE DEF a
    <2>3. /\ \A p \in Pairs : loop'[p] \in Calls => loop'[p] \in executed
          /\ Sound(wire', executed, Begun) /\ Once(wire')
      BY <2>1, <2>2, TakeType, TakeSafe, ReplySafe
    <2> QED
      BY <1>1, <2>1, <2>3, TakeSafe, SafeStep
  <1>7. CASE Learn(d, s)
    BY <1>1, <1>7, TakeSafe, SafeStep DEF Learn
  <1> QED
    BY <1>2, <1>3, <1>4, <1>5, <1>6, <1>7 DEF Receive

\* Every step of a route_task preserves ExecInv.
LEMMA CallExec ==
  ASSUME TypeOK, TableInv, ExecInv, NEW c \in Calls, CallStep(c)
  PROVE  ExecInv'
PROOF
  <1> DEFINE quiet == /\ UNCHANGED <<wire, loop, orphans, executed>>
                      /\ \A e \in Calls : future'[e] \in {"data", "fault"} => future'[e] = future[e]
                      /\ \A e \in Calls : call'[e].at = "idle" => call'[e] = call[e]
  <1>1. ASSUME quiet PROVE ExecInv'
    <2>1. \A e \in Calls : future'[e] \in {"data", "fault"} => e \in executed
      BY <1>1 DEF ExecInv
    <2>2. Sound(wire', executed, Begun) /\ Once(wire')
      BY <1>1 DEF ExecInv
    <2> QED
      BY <1>1, <2>1, <2>2, SafeStep DEF ExecInv
  <1>2. ASSUME NEW out, Return(c, out)
        PROVE  \A e \in Calls : call'[e].at = "idle" => call'[e] = call[e]
    BY <1>2, ReturnFrame
  <1>3. CASE RefuseTask(c)
    <2>1. PICK out : Return(c, out)
      BY <1>3 DEF RefuseTask
    <2> QED
      BY <1>1, <1>2, <1>3, <2>1 DEF RefuseTask
  <1>4. ASSUME NEW d \in Nodes, RouteTask(c, d) PROVE ExecInv'
    <2>1. /\ call[c].at = "idle" /\ UNCHANGED <<loop, orphans, executed>>
          /\ wire' = Post(wire, CallerOf[c], d, Request(c))
          /\ future' = [future EXCEPT ![c] = "waiting"]
      BY <1>4 DEF RouteTask
    <2>2. call'[c].at # "idle" /\ \A e \in Calls \ {c} : call'[e] = call[e]
      BY <1>4 DEF RouteTask, TypeOK
    <2>3. Begun \subseteq Begun' /\ c \in Begun' /\ c \notin executed
      BY <2>1, <2>2 DEF Begun, ExecInv
    <2>4. CallerOf[c] \in Nodes /\ Request(c) \in Msg
      BY RouterAssumption, MessageTypes DEF RouterAssumption
    <2>5. Request(c).kind = "request" /\ Request(c).call = c
      BY DEF Request
    <2>6. wire \in [Pairs -> Seq(Msg)] /\ Sound(wire, executed, Begun) /\ Once(wire)
      BY DEF TypeOK, ExecInv
    <2>7. Sound(wire, executed, Begun')
      BY <2>3, <2>6, SoundGrows
    <2> HIDE DEF Request
    <2>8. Sound(Post(wire, CallerOf[c], d, Request(c)), executed, Begun')
      BY <2>3, <2>4, <2>5, <2>6, <2>7, PostSound
    <2>9. \A p \in Pairs : \A i \in 1..Len(wire[p]) : \A e \in Calls :
            ~(Asks(Request(c), e) /\ Asks(wire[p][i], e))
      BY <2>1, <2>5, <2>6 DEF Sound, Asks, Begun
    <2>10. Once(Post(wire, CallerOf[c], d, Request(c)))
      BY <2>4, <2>6, <2>9, PostOnce
    <2>11. Sound(wire, executed, Begun)' /\ Once(wire)'
      BY <2>1, <2>8, <2>10 DEF Sound, Once, Asks
    <2>12. \A e \in Calls : future'[e] \in {"data", "fault"} => e \in executed
      BY <2>1 DEF ExecInv, TypeOK
    <2> QED
      BY <2>1, <2>2, <2>3, <2>11, <2>12 DEF ExecInv
  <1>5. CASE SendBroken(c)
    <2>1. PICK out : Return(c, out)
      BY <1>5 DEF SendBroken
    <2> QED
      BY <1>1, <1>2, <1>5, <2>1 DEF SendBroken
  <1>6. CASE SendBelieved(c)
    <2>1. \A e \in Calls : call'[e].at = "idle" => call'[e] = call[e]
      BY <1>6 DEF SendBelieved, TypeOK
    <2> QED
      BY <1>1, <1>6, <2>1 DEF SendBelieved
  <1>7. CASE Wake(c)
    BY <1>1, <1>2, <1>7 DEF Wake
  <1>8. CASE TimeOut(c)
    <2>1. \A e \in Calls : future'[e] \in {"data", "fault"} => future'[e] = future[e]
      BY <1>8 DEF TimeOut, TypeOK
    <2> QED
      BY <1>1, <1>2, <1>8, <2>1 DEF TimeOut
  <1>9. CASE Evict(c)
    <2>1. \A e \in Calls : future'[e] \in {"data", "fault"} => future'[e] = future[e]
      BY <1>9 DEF Evict, TypeOK
    <2> QED
      BY <1>1, <1>9, <2>1 DEF Evict
  <1>10. ASSUME NEW k \in Answers, AgentDone(c, k) PROVE ExecInv'
    <2> DEFINE d == call[c].dst
               a == Answer(k, c)
    <2>1. call[c] \in Frame /\ CallerOf[c] \in Nodes /\ a \in Msg
      BY RouterAssumption, MessageTypes DEF TypeOK, RouterAssumption
    <2>2. d \in Nodes /\ a.kind # "request" /\ a.call = c
      BY <2>1 DEF Frame, Answer, Answers
    <2>3. /\ wire \in [Pairs -> Seq(Msg)] /\ loop \in [Pairs -> {"free", "drain"} \cup Calls]
          /\ Sound(wire, executed, Begun) /\ Once(wire) /\ orphans \subseteq executed
          /\ \A p \in Pairs : loop[p] \in Calls => loop[p] \in executed
          /\ \A e \in Calls : future[e] \in {"data", "fault"} => e \in executed
      BY DEF TypeOK, ExecInv
    <2>4. UNCHANGED <<call, future, executed>>
      BY <1>10 DEF AgentDone
    <2>5. \/ loop[<<d, CallerOf[c]>>] = c /\ Reply(wire, loop, d, CallerOf[c], a) /\ UNCHANGED orphans
          \/ /\ c \in orphans /\ orphans' = orphans \ {c} /\ loop' = loop
             /\ wire' = Post(wire, d, CallerOf[c], a)
      BY <1>10 DEF AgentDone
    <2> HIDE DEF a, d
    <2>6. c \in executed
      BY <2>1, <2>2, <2>3, <2>5 DEF Pairs
    <2>7. CASE Reply(wire, loop, d, CallerOf[c], a) /\ UNCHANGED orphans
      <3>1. /\ \A p \in Pairs : loop'[p] \in Calls => loop'[p] \in executed
            /\ Sound(wire', executed, Begun) /\ Once(wire')
        BY <2>1, <2>2, <2>3, <2>6, <2>7, ReplySafe
      <3> QED
        BY <2>3, <2>4, <2>7, <3>1, SafeStep
    <2>8. CASE wire' = Post(wire, d, CallerOf[c], a) /\ loop' = loop /\ orphans' = orphans \ {c}
      <3>1. Sound(wire', executed, Begun) /\ Once(wire')
        BY <2>1, <2>2, <2>3, <2>6, <2>8, PostSafe
      <3> QED
        BY <2>3, <2>4, <2>8, <3>1, SafeStep
    <2> QED
      BY <2>5, <2>7, <2>8
  <1> QED
    BY <1>3, <1>4, <1>5, <1>6, <1>7, <1>8, <1>9, <1>10 DEF CallStep

LEMMA ExecStep == TypeOK /\ TableInv /\ ExecInv /\ [Next]_vars => ExecInv'
PROOF
  <1> SUFFICES ASSUME TypeOK, TableInv, ExecInv, [Next]_vars PROVE ExecInv'
    OBVIOUS
  <1> DEFINE still == /\ \A p \in Pairs : loop[p] \in Calls => loop[p] \in executed
                      /\ \A c \in Calls : future[c] \in {"data", "fault"} => c \in executed
                      /\ orphans \subseteq executed
                      /\ Sound(wire, executed, Begun) /\ Once(wire)
                      /\ wire \in [Pairs -> Seq(Msg)]
  <1>1. still
    BY DEF ExecInv, TypeOK
  <1>2. CASE UNCHANGED vars
    BY <1>1, <1>2, SafeStep DEF vars
  <1>3. ASSUME NEW k \in Links, Connect(k) PROVE ExecInv'
    BY <1>1, <1>3, SafeStep DEF Connect
  <1>4. ASSUME NEW k \in Links, Disconnect(k) PROVE ExecInv'
    <2>1. /\ wire' = [p \in Pairs |-> IF {p[1], p[2]} = k THEN <<>> ELSE wire[p]]
          /\ loop' = [p \in Pairs |-> IF {p[1], p[2]} = k THEN "free" ELSE loop[p]]
          /\ orphans' = orphans \cup
               {c \in Calls : \E p \in Pairs : {p[1], p[2]} = k /\ loop[p] = c}
          /\ UNCHANGED <<executed, future>>
      BY <1>4 DEF Disconnect
    <2>2. \A p \in Pairs : \A i \in 1..Len(wire'[p]) :
            i \in 1..Len(wire[p]) /\ wire'[p][i] = wire[p][i]
      <3> SUFFICES ASSUME NEW p \in Pairs, NEW i \in 1..Len(wire'[p])
                   PROVE  i \in 1..Len(wire[p]) /\ wire'[p][i] = wire[p][i]
        OBVIOUS
      <3>1. wire'[p] = <<>> \/ wire'[p] = wire[p]
        BY <2>1
      <3>2. wire'[p] # <<>>
        OBVIOUS
      <3> QED
        BY <3>1, <3>2
    <2>3. Sound(wire', executed, Begun) /\ Once(wire')
      <3>1. Sound(wire', executed, Begun)
        BY <1>1, <2>2 DEF Sound
      <3>2. Once(wire')
        BY <1>1, <2>2 DEF Once
      <3> QED
        BY <3>1, <3>2
    <2>4. /\ \A p \in Pairs : loop'[p] \in Calls => loop'[p] \in executed
          /\ orphans' \subseteq executed
      BY <1>1, <2>1, RouterAssumption DEF RouterAssumption
    <2>5. ASSUME NEW c \in Calls, call'[c].at = "idle" PROVE call'[c] = call[c]
      <3>1. call[c] \in Frame
        BY DEF TypeOK
      <3>2. call'[c] = call[c] \/ call'[c] = [call[c] EXCEPT !.at = "severed"]
        BY <1>4 DEF Disconnect
      <3> QED
        BY <2>5, <3>1, <3>2 DEF Frame
    <2> QED
      BY <1>1, <2>1, <2>3, <2>4, <2>5, SafeStep
  <1>5. ASSUME NEW n \in Nodes, NodeStep(n) PROVE ExecInv'
    <2>1. CASE Start(n)
      BY <1>1, <2>1, SafeStep DEF Start
    <2>2. CASE Stop(n)
      <3>1. \A c \in Calls : future'[c] \in {"data", "fault"} => c \in executed
        BY <1>1, <2>2 DEF Stop
      <3> QED
        BY <1>1, <2>2, <3>1, SafeStep DEF Stop
    <2>3. ASSUME NEW a \in announce[n], AnnounceTo(n, a) PROVE ExecInv'
      <3>1. a.to \in Nodes /\ Caps(a.caps) \in Msg /\ Caps(a.caps).kind = "caps"
        BY MessageTypes DEF TypeOK, Caps
      <3>2. wire' = Post(wire, n, a.to, Caps(a.caps))
        BY <2>3 DEF AnnounceTo
      <3>3. Sound(wire', executed, Begun) /\ Once(wire')
        BY <1>1, <3>1, <3>2, PostSafe
      <3> QED
        BY <1>1, <2>3, <3>3, SafeStep DEF AnnounceTo
    <2>4. ASSUME NEW S \in SUBSET Tasks, Reload(n, S) PROVE ExecInv'
      BY <1>1, <2>4, SafeStep DEF Reload
    <2>5. ASSUME NEW d \in Nodes, ForgetNode(n, d) PROVE ExecInv'
      BY <1>1, <2>5, SafeStep DEF ForgetNode
    <2>6. ASSUME NEW d \in Nodes, QueryCapabilities(n, d) PROVE ExecInv'
      <3>1. Query \in Msg /\ Query.kind = "query"
        BY MessageTypes DEF Query
      <3>2. wire' = Post(wire, n, d, Query)
        BY <2>6 DEF QueryCapabilities
      <3>3. Sound(wire', executed, Begun) /\ Once(wire')
        BY <1>1, <3>1, <3>2, PostSafe
      <3> QED
        BY <1>1, <2>6, <3>3, SafeStep DEF QueryCapabilities
    <2> QED
      BY <1>5, <2>1, <2>2, <2>3, <2>4, <2>5, <2>6, ReceiveExec DEF NodeStep
  <1>6. ASSUME NEW c \in Calls, CallStep(c) PROVE ExecInv'
    BY <1>6, CallExec
  <1> QED
    BY <1>2, <1>3, <1>4, <1>5, <1>6 DEF Next, Network

LEMMA ExecAlways == Spec => []ExecInv
PROOF
  <1>1. Init => ExecInv
    <2> SUFFICES ASSUME Init PROVE ExecInv
      OBVIOUS
    <2>1. \A p \in Pairs : wire[p] = <<>> /\ loop[p] = "free"
      BY DEF Init
    <2>2. Sound(wire, executed, Begun) /\ Once(wire)
      BY <2>1 DEF Sound, Once
    <2> QED
      BY <2>1, <2>2, RouterAssumption DEF Init, ExecInv, RouterAssumption
  <1> QED
    BY <1>1, ExecStep, TypeCorrect, TableAlways, PTL DEF Spec

-----------------------------------------------------------------------------
(* The refinement *)

\* A step that executes nothing and returns no call is a stutter of RemoteCall.
LEMMA SamePhase ==
  ASSUME TypeOK, UNCHANGED executed,
         \A c \in Calls : /\ call'[c].out = call[c].out
                          /\ call'[c].at = "idle" <=> call[c].at = "idle"
                          /\ call'[c].at = "returned" <=> call[c].at = "returned"
  PROVE  UNCHANGED Remote!vars
PROOF
  BY DEF Remote!vars, phase, result

\* Waking a draining call is a stutter.
LEMMA TakeStutters ==
  ASSUME TypeOK, NEW d \in Nodes, NEW s \in Nodes, NEW K, Take(d, s, K)
  PROVE  UNCHANGED <<phase, result>>
PROOF
  <1>1. ASSUME NEW c \in Calls
        PROVE  /\ call'[c].out = call[c].out
               /\ call'[c].at = "idle" <=> call[c].at = "idle"
               /\ call'[c].at = "returned" <=> call[c].at = "returned"
    <2>1. call[c] \in Frame
      BY DEF TypeOK
    <2>2. \/ call'[c] = call[c]
          \/ call[c].at = "draining" /\ call'[c] = [call[c] EXCEPT !.at = "waiting"]
      BY DEF Take
    <2> QED
      BY <2>1, <2>2 DEF Frame
  <1> QED
    BY <1>1 DEF phase, result

\* The end of a call that was under way returns it in RemoteCall.
LEMMA ReturnMaps ==
  ASSUME TypeOK, NEW c \in Calls, NEW out \in Failures \cup {"ok"}, Return(c, out),
         call[c].at \in UnderWay, UNCHANGED executed, out = "ok" => c \in executed
  PROVE  Remote!Return(c)
PROOF
  <1>1. /\ call'[c].at = "returned" /\ call'[c].out = out
        /\ \A e \in Calls \ {c} : call'[e] = call[e]
    BY ReturnFrame
  <1>2. phase[c] = "open"
    BY DEF phase, UnderWay
  <1>3. phase' = [phase EXCEPT ![c] = "closed"]
    BY <1>1 DEF phase
  <1>4. result' = [result EXCEPT ![c] = out]
    BY <1>1 DEF result
  <1> QED
    BY <1>2, <1>3, <1>4 DEF Remote!Return

LEMMA CallMaps ==
  ASSUME TypeOK, ExecInv, NEW c \in Calls, CallStep(c)
  PROVE  [Remote!Next]_(Remote!vars)
PROOF
  <1>1. call[c] \in Frame
    BY DEF TypeOK
  <1>2. CASE RefuseTask(c)
    <2>1. PICK out \in Failures : Return(c, out)
      BY <1>2 DEF RefuseTask, Failures
    <2>2. call[c].at = "idle" /\ UNCHANGED executed
      BY <1>2 DEF RefuseTask
    <2>3. /\ call'[c].at = "returned" /\ call'[c].out = out
          /\ \A e \in Calls \ {c} : call'[e] = call[e]
      BY <2>1, ReturnFrame
    <2>4. phase[c] = "idle" /\ phase' = [phase EXCEPT ![c] = "closed"]
      BY <2>2, <2>3 DEF phase
    <2>5. result' = [result EXCEPT ![c] = out]
      BY <2>3 DEF result
    <2>6. Remote!Refuse(c)
      BY <2>2, <2>4, <2>5 DEF Remote!Refuse
    <2> QED
      BY <2>6 DEF Remote!Next
  <1>3. ASSUME NEW d \in Nodes, RouteTask(c, d) PROVE [Remote!Next]_(Remote!vars)
    <2>1. /\ call[c].at = "idle" /\ call'[c].at \in UnderWay /\ call'[c].out = "none"
          /\ \A e \in Calls \ {c} : call'[e] = call[e]
          /\ UNCHANGED executed
      BY <1>3 DEF RouteTask, TypeOK, UnderWay
    <2>2. phase[c] = "idle" /\ phase' = [phase EXCEPT ![c] = "open"]
      BY <2>1 DEF phase, UnderWay
    <2>3. CASE call[c].out = "none"
      <3>1. UNCHANGED result
        BY <2>1, <2>3 DEF result
      <3>2. Remote!Issue(c)
        BY <2>1, <2>2, <3>1 DEF Remote!Issue
      <3> QED
        BY <3>2 DEF Remote!Next
    <2> QED
      BY <2>1, <2>3 DEF ExecInv
  <1>4. CASE SendBroken(c)
    <2>1. PICK out \in Failures : Return(c, out)
      BY <1>4 DEF SendBroken, Failures
    <2>2. Remote!Return(c)
      BY <1>4, <2>1, ReturnMaps DEF SendBroken, UnderWay, Failures
    <2> QED
      BY <2>2 DEF Remote!Next
  <1>5. CASE SendBelieved(c)
    <2>1. \A e \in Calls : /\ call'[e].out = call[e].out
                           /\ call'[e].at = "idle" <=> call[e].at = "idle"
                           /\ call'[e].at = "returned" <=> call[e].at = "returned"
      BY <1>1, <1>5 DEF SendBelieved, TypeOK, Frame
    <2> QED
      BY <1>5, <2>1, SamePhase DEF SendBelieved
  <1>6. CASE Wake(c)
    <2>1. /\ Outcome(future[c]) \in Failures \cup {"ok"}
          /\ Outcome(future[c]) = "ok" => future[c] \in {"data", "fault"}
      BY <1>6 DEF Wake, Outcome, Settled, Answers, Failures
    <2>2. Outcome(future[c]) = "ok" => c \in executed
      BY <2>1 DEF ExecInv
    <2>3. Remote!Return(c)
      BY <1>6, <2>1, <2>2, ReturnMaps DEF Wake, UnderWay
    <2> QED
      BY <2>3 DEF Remote!Next
  <1>7. CASE TimeOut(c)
    <2>1. Remote!Return(c)
      BY <1>7, ReturnMaps DEF TimeOut, UnderWay, Failures
    <2> QED
      BY <2>1 DEF Remote!Next
  <1>8. CASE Evict(c)
    BY <1>8, SamePhase DEF Evict
  <1>9. ASSUME NEW k \in Answers, AgentDone(c, k) PROVE [Remote!Next]_(Remote!vars)
    BY <1>9, SamePhase DEF AgentDone
  <1> QED
    BY <1>2, <1>3, <1>4, <1>5, <1>6, <1>7, <1>8, <1>9 DEF CallStep

\* Each step of the routers and the mesh is one of RemoteCall or a stutter:
\* a task is run at most once, and a response means that it was run.
THEOREM RouterRefines == Spec => ImplementsRemoteCall
PROOF
  <1>1. Init => Remote!Init
    BY DEF Init, Remote!Init, phase, result
  <1>2. ASSUME TypeOK, ExecInv, [Next]_vars PROVE [Remote!Next]_(Remote!vars)
    <2>1. CASE UNCHANGED vars
      BY <1>2, <2>1, SamePhase DEF vars
    <2>2. ASSUME NEW k \in Links, Connect(k) PROVE UNCHANGED Remote!vars
      BY <1>2, <2>2, SamePhase DEF Connect
    <2>3. ASSUME NEW k \in Links, Disconnect(k) PROVE UNCHANGED Remote!vars
      <3>1. ASSUME NEW c \in Calls
            PROVE  /\ call'[c].out = call[c].out
                   /\ call'[c].at = "idle" <=> call[c].at = "idle"
                   /\ call'[c].at = "returned" <=> call[c].at = "returned"
        <4>1. call[c] \in Frame
          BY <1>2 DEF TypeOK
        <4>2. \/ call'[c] = call[c]
              \/ call[c].at = "draining" /\ call'[c] = [call[c] EXCEPT !.at = "severed"]
          BY <2>3 DEF Disconnect
        <4> QED
          BY <4>1, <4>2 DEF Frame
      <3> QED
        BY <1>2, <2>3, <3>1, SamePhase DEF Disconnect
    <2>4. ASSUME NEW d \in Nodes, NEW s \in Nodes, Receive(d, s)
          PROVE  [Remote!Next]_(Remote!vars)
      <3>1. UNCHANGED <<phase, result>>
        BY <1>2, <2>4, TakeStutters
           DEF Receive, Drop, RunTask, DeclineTask, Resolve, AnswerQuery, Learn
      <3>2. CASE UNCHANGED executed
        BY <3>1, <3>2 DEF Remote!vars
      <3>3. CASE RunTask(d, s)
        <4> DEFINE c == Head(wire[<<s, d>>]).call
        <4>1. /\ Take(d, s, {"request"}) /\ executed' = executed \cup {c}
              /\ wire[<<s, d>>] # <<>>
          BY <3>3 DEF RunTask, Take
        <4>2. c \in Calls /\ Head(wire[<<s, d>>]).kind = "request"
          BY <1>2, <4>1, TakeType DEF Msg
        <4>3. c \notin executed /\ c \in Begun
          BY <1>2, <4>1, <4>2, HeadFrame DEF ExecInv, Sound
        <4>4. phase[c] # "idle"
          BY <4>2, <4>3 DEF Begun, phase
        <4>5. Remote!Execute(c)
          BY <3>1, <4>1, <4>3, <4>4 DEF Remote!Execute
        <4> QED
          BY <4>2, <4>5 DEF Remote!Next
      <3> QED
        BY <2>4, <3>2, <3>3 DEF Receive, Drop, DeclineTask, Resolve, AnswerQuery, Learn
    <2>5. ASSUME NEW n \in Nodes, NodeStep(n) PROVE [Remote!Next]_(Remote!vars)
      <3>1. CASE UNCHANGED <<call, executed>>
        BY <1>2, <3>1, SamePhase
      <3> QED
        BY <2>4, <2>5, <3>1
           DEF NodeStep, Start, Stop, AnnounceTo, Reload, ForgetNode, QueryCapabilities
    <2>6. ASSUME NEW c \in Calls, CallStep(c) PROVE [Remote!Next]_(Remote!vars)
      BY <1>2, <2>6, CallMaps
    <2> QED
      BY <1>2, <2>1, <2>2, <2>3, <2>5, <2>6 DEF Next, Network
  <1> QED
    BY <1>1, <1>2, TypeCorrect, ExecAlways, PTL DEF Spec, ImplementsRemoteCall, Remote!Spec
=============================================================================
