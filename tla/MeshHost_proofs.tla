--------------------------- MODULE MeshHost_proofs ---------------------------
(* Theorems about MeshHost and their proofs. *)
EXTENDS MeshHost, TLAPS

-----------------------------------------------------------------------------
(* The inductive invariant *)

IsReg(x)  == \E k \in Conns : x = Reg(k)
IsLoop(x) == \E k \in Conns : x = Loop(k)

\* What the frame f of coroutine x says about where it may go on: only a
\* receive loop returns to the top of one, and it reads a connection; only a
\* registration creates a loop, and that is all it does after its send.
FrameOK(x, f) ==
  /\ f \in Frame
  /\ f.at = "recv" => f.conn # None
  /\ f.at = "sending" => f.out # None
  /\ f.at \in {"sending", "marking", "pong"} => f.peer \in Peers
  /\ ~(x \in Singles) => f.peer \in Peers
  /\ f.next \in Tops => IsLoop(x) /\ f.conn # None
  /\ f.next = "spawn" => IsReg(x)
  /\ ~(f.next \in {"recv", "sending", "marking"})
  /\ f.next = "pong" => x = Heartbeat
  /\ f.next = "idle" => x \in Singles
  /\ IsReg(x) /\ f.at \in {"sending", "marking"} => f.next = "spawn"

TaskOK == /\ task \in [TaskIds -> Frame]
          /\ \A x \in TaskIds : FrameOK(x, task[x])

TableOK ==
  /\ table \in [Peers -> Conns \cup {None}]
  /\ \A p \in Peers : table[p] # None => PeerOf[table[p]] = p
  /\ status \in [Peers -> Statuses]
  /\ link \in [Conns -> LinkStates]
  /\ dialing \subseteq Conns

ListsOK ==
  /\ stage \in {"up", "goodbye", "closing", "down"}
  /\ todo \subseteq Peers /\ dead \subseteq Peers
  /\ closing \subseteq Conns

Core == TableOK /\ TaskOK /\ NoOrphanSocket /\ NoStuckDial

Inv == ListsOK /\ Core

\* Where coroutine x may be told to go on, after a wait or at once.
Place(x, next) ==
  /\ next \in Points \ {"recv", "sending", "marking"}
  /\ next \in Tops => IsLoop(x) /\ task[x].conn # None
  /\ next = "spawn" => IsReg(x)
  /\ IsReg(x) => next = "spawn"
  /\ next = "pong" => x = Heartbeat
  /\ next = "idle" => x \in Singles

Target(x, next) == Place(x, next) /\ (next = "pong" => task[x].peer \in Peers)

-----------------------------------------------------------------------------
(* Coroutines *)

\* The coroutines are told apart by their names.
LEMMA Names ==
  /\ Heartbeat \in TaskIds /\ Caller \in TaskIds
  /\ \A k \in Conns : Reg(k) \in TaskIds /\ Loop(k) \in TaskIds
  /\ \A k \in Conns : Reg(k)[2] = k /\ Loop(k)[2] = k
  /\ \A k \in Conns : ~(Reg(k) \in Singles) /\ ~(Loop(k) \in Singles)
  /\ \A k, j \in Conns : Reg(k) # Loop(j)
  /\ \A k, j \in Conns : Reg(k) = Reg(j) => k = j
  /\ Heartbeat \in Singles /\ Caller \in Singles /\ Heartbeat # Caller
  /\ \A x \in TaskIds : x \in Singles \/ IsReg(x) \/ IsLoop(x)
PROOF
  <1>1. \A k \in Conns : Reg(k) \in TaskIds /\ Loop(k) \in TaskIds
    BY DEF TaskIds, Reg, Loop
  <1>2. \A k \in Conns : Reg(k)[2] = k /\ Loop(k)[2] = k
    BY DEF Reg, Loop
  <1>3. \A k \in Conns : ~(Reg(k) \in Singles) /\ ~(Loop(k) \in Singles)
    BY DEF Reg, Loop, Singles, Heartbeat, Caller
  <1>4. \A k, j \in Conns : Reg(k) # Loop(j) /\ (Reg(k) = Reg(j) => k = j)
    BY DEF Reg, Loop
  <1>5. Heartbeat # Caller
    BY DEF Heartbeat, Caller
  <1>6. \A x \in TaskIds : x \in Singles \/ IsReg(x) \/ IsLoop(x)
    BY DEF TaskIds, IsReg, IsLoop, Reg, Loop
  <1> QED
    BY <1>1, <1>2, <1>3, <1>4, <1>5, <1>6 DEF Singles, TaskIds

\* What a coroutine is created with
LEMMA NewFrameOK ==
  ASSUME NEW x \in TaskIds
  PROVE  /\ NewFrame(x) \in Frame
         /\ NewFrame(x).conn = None /\ NewFrame(x).out = None
         /\ NewFrame(x).next = "none"
         /\ NewFrame(x).at \in {"idle", "none"}
         /\ ~(x \in Singles) => NewFrame(x).peer \in Peers
PROOF
  <1>1. ~(x \in Singles) => PeerOf[x[2]] \in Peers
    BY Names, HostAssumption DEF IsReg, IsLoop, HostAssumption
  <1> QED
    BY <1>1 DEF NewFrame, Frame, Points

\* A settled frame is one the invariant allows.
LEMMA SettledOK ==
  ASSUME TaskOK, NEW x \in TaskIds,
         NEW point \in Points, ~(point \in {"sending", "marking"}),
         point = "recv" => task[x].conn # None,
         point = "idle" => x \in Singles,
         point = "pong" => task[x].peer \in Peers
  PROVE  FrameOK(x, Settled(x, point)) /\ Settled(x, point).at = point
PROOF
  <1>1. FrameOK(x, task[x]) /\ task[x] \in Frame
    BY DEF TaskOK
  <1>2. CASE point = "ended"
    <2>1. Settled(x, point) = [NewFrame(x) EXCEPT !.at = "ended"]
      BY <1>2 DEF Settled
    <2>2. /\ Settled(x, point) \in Frame /\ Settled(x, point).at = "ended"
          /\ Settled(x, point).next = "none"
          /\ ~(x \in Singles) => Settled(x, point).peer \in Peers
      BY <2>1, NewFrameOK DEF Frame, Points
    <2> QED
      BY <1>2, <2>2 DEF FrameOK, Tops
  <1>3. CASE point # "ended"
    <2> DEFINE who == IF point = "idle" THEN None ELSE task[x].peer
    <2>1. Settled(x, point) = [task[x] EXCEPT !.at = point, !.out = None, !.next = "none",
                                              !.peer = who]
      BY <1>3 DEF Settled
    <2>2. who \in Peers \cup {None}
      BY <1>1 DEF Frame
    <2>3. /\ Settled(x, point) \in Frame
          /\ Settled(x, point).at = point /\ Settled(x, point).next = "none"
          /\ Settled(x, point).conn = task[x].conn
          /\ Settled(x, point).peer = who
      <3> HIDE DEF who
      <3> QED
        BY <1>1, <2>1, <2>2 DEF Frame, Points
    <2> QED
      BY <1>1, <1>3, <2>3 DEF FrameOK, Tops
  <1> QED
    BY <1>2, <1>3

\* Putting an allowed frame in place of another keeps the frames in order, and
\* no peer stuck in _dialing unless a registration ends and leaves it there.
LEMMA PutOK ==
  ASSUME TaskOK, NoStuckDial, dialing \subseteq Conns,
         NEW x \in TaskIds, NEW f, FrameOK(x, f),
         task' = [task EXCEPT ![x] = f],
         dialing' \subseteq Conns,
         \A k \in dialing' : k \in dialing \/ x = Reg(k),
         \A k \in dialing' : x = Reg(k) => f.at # "ended"
  PROVE  TaskOK' /\ NoStuckDial'
PROOF
  <1>1. f \in Frame
    BY DEF FrameOK
  <1>2. task' \in [TaskIds -> Frame]
    BY <1>1 DEF TaskOK
  <1>3. task'[x] = f /\ \A y \in TaskIds : y # x => task'[y] = task[y]
    BY DEF TaskOK
  <1>4. \A y \in TaskIds : FrameOK(y, task'[y])
    BY <1>3 DEF TaskOK
  <1>5. NoStuckDial'
    <2> SUFFICES ASSUME NEW k \in dialing' PROVE task'[Reg(k)].at # "ended"
      BY DEF NoStuckDial
    <2>1. Reg(k) \in TaskIds
      BY Names
    <2> QED
      BY <1>3, <2>1 DEF NoStuckDial
  <1> QED
    BY <1>2, <1>4, <1>5 DEF TaskOK

\* A coroutine told to go on at one of its targets goes on properly.
LEMMA ResumesOK ==
  ASSUME TaskOK, NoStuckDial, dialing \subseteq Conns,
         NEW x \in TaskIds, NEW next, Target(x, next), NEW lk, Resumes(x, next, lk)
  PROVE  TaskOK' /\ NoStuckDial' /\ dialing' \subseteq Conns
PROOF
  <1>1. CASE next = "spawn"
    <2>1. PICK k \in Conns : x = Reg(k)
      BY <1>1 DEF Target, Place, IsReg
    <2>2. x[2] = k /\ Loop(k) \in TaskIds /\ Loop(k) # x /\ Reg(k) = x
      BY <2>1, Names
    <2> DEFINE e == Settled(x, "ended")
               g == [task[Loop(k)] EXCEPT !.at = "created"]
    <2>3. FrameOK(x, e) /\ e.at = "ended"
      BY SettledOK DEF Points
    <2>4. FrameOK(Loop(k), task[Loop(k)]) /\ task[Loop(k)] \in Frame
      BY <2>2 DEF TaskOK
    <2>5. /\ g \in Frame /\ g.at = "created" /\ g.next = task[Loop(k)].next
          /\ g.conn = task[Loop(k)].conn /\ g.peer = task[Loop(k)].peer
      BY <2>4 DEF Frame, Points
    <2>6. FrameOK(Loop(k), g)
      <3> HIDE DEF g
      <3> QED
        BY <2>4, <2>5 DEF FrameOK
    <2>7. task' = [task EXCEPT ![x] = e, ![Loop(k)].at = "created"]
      <3>1. task' = SpawnLoop(x[2])
        BY <1>1 DEF Resumes, Tops
      <3>2. SpawnLoop(k) = [task EXCEPT ![Reg(k)] = Settled(Reg(k), "ended"),
                                        ![Loop(k)].at = "created"]
        BY DEF SpawnLoop
      <3> QED
        BY <2>2, <3>1, <3>2
    <2>8. dialing' = dialing \ {k}
      BY <1>1, <2>2 DEF Resumes
    <2>9. /\ task' \in [TaskIds -> Frame]
          /\ task'[x] = e /\ task'[Loop(k)] = g
          /\ \A y \in TaskIds : y # x /\ y # Loop(k) => task'[y] = task[y]
      <3>1. e \in Frame
        BY <2>3 DEF FrameOK
      <3>2. task \in [TaskIds -> Frame]
        BY DEF TaskOK
      <3>3. task' = [task EXCEPT ![x] = e, ![Loop(k)] = g]
        <4> HIDE DEF e
        <4> QED
          BY <2>2, <2>7, <3>2
      <3> HIDE DEF e, g
      <3> QED
        BY <2>2, <2>5, <3>1, <3>2, <3>3
    <2> HIDE DEF e, g
    <2>10. \A y \in TaskIds : FrameOK(y, task'[y])
      BY <2>3, <2>6, <2>9 DEF TaskOK
    <2>11. NoStuckDial'
      <3> SUFFICES ASSUME NEW j \in dialing' PROVE task'[Reg(j)].at # "ended"
        BY DEF NoStuckDial
      <3>1. j \in dialing /\ j # k /\ j \in Conns
        BY <2>8
      <3>2. Reg(j) \in TaskIds /\ Reg(j) # x /\ Reg(j) # Loop(k)
        BY <2>1, <3>1, Names
      <3> QED
        BY <2>9, <3>1, <3>2 DEF NoStuckDial
    <2> QED
      BY <2>8, <2>9, <2>10, <2>11 DEF TaskOK
  <1>2. CASE next # "spawn"
    <2> DEFINE point == IF next \in Tops
                        THEN IF GoesOn(x, lk) THEN "recv" ELSE "ended" ELSE next
    <2>1. ~IsReg(x)
      BY <1>2 DEF Target, Place
    <2>2. /\ point \in Points /\ ~(point \in {"sending", "marking"})
          /\ point = "recv" => task[x].conn # None
          /\ point = "idle" => x \in Singles
          /\ point = "pong" => task[x].peer \in Peers
      BY DEF Target, Place, Points, Tops
    <2>3. FrameOK(x, Settled(x, point))
      <3> HIDE DEF point
      <3> QED
        BY <2>2, SettledOK
    <2>4. task' = [task EXCEPT ![x] = Settled(x, point)]
      BY <1>2 DEF Resumes, Tops
    <2>5. dialing' = dialing
      BY <1>2 DEF Resumes
    <2>6. \A k \in dialing' : x # Reg(k)
      BY <2>1, <2>5 DEF IsReg
    <2> HIDE DEF point
    <2> QED
      BY <2>3, <2>4, <2>5, <2>6, PutOK
  <1> QED
    BY <1>1, <1>2

-----------------------------------------------------------------------------
(* Sends and disconnections *)

\* A coroutine waits for a close, or for a send, with an allowed frame.
LEMMA WaitingOK ==
  ASSUME TaskOK, NoStuckDial, dialing \subseteq Conns,
         NEW x \in TaskIds, NEW next, Place(x, next),
         NEW p \in Peers, NEW at \in {"marking", "sending"}, NEW out \in Conns \cup {None},
         at = "sending" => out # None,
         task' = [task EXCEPT ![x].at = at, ![x].peer = p, ![x].out = out, ![x].next = next],
         dialing' = dialing
  PROVE  TaskOK' /\ NoStuckDial'
PROOF
  <1> DEFINE f == [task[x] EXCEPT !.at = at, !.peer = p, !.out = out, !.next = next]
  <1>1. FrameOK(x, task[x]) /\ task[x] \in Frame
    BY DEF TaskOK
  <1>2. /\ f \in Frame /\ f.at = at /\ f.peer = p /\ f.out = out
        /\ f.next = next /\ f.conn = task[x].conn
    BY <1>1 DEF Frame, Points, Target, Place
  <1>3. task' = [task EXCEPT ![x] = f]
    BY DEF TaskOK
  <1> HIDE DEF f
  <1>4. FrameOK(x, f)
    BY <1>1, <1>2 DEF FrameOK, Target, Place
  <1>5. f.at # "ended"
    BY <1>2
  <1> QED
    BY <1>3, <1>4, <1>5, PutOK

\* _handle_disconnection keeps the invariant: it takes a connection out and
\* closes it, unless it is flagged and not alive any more.
LEMMA DisconnectsOK ==
  ASSUME Core, stage' = stage,
         NEW x \in TaskIds, NEW p \in Peers, NEW next, Target(x, next),
         NEW st \in [Peers -> Statuses], NEW lk \in [Conns -> LinkStates],
         \A k \in Conns : Alive(lk[k]) => Alive(link[k]),
         Disconnects(x, p, next, st, lk)
  PROVE  Core'
PROOF
  <1> DEFINE c == table[p]
             waits == c # None /\ ~Flagged(lk[c])
  <1>1. /\ table' = [table EXCEPT ![p] = None]
        /\ link' = IF waits THEN [lk EXCEPT ![c] = "closed"] ELSE lk
        /\ status' = IF waits THEN st ELSE Marked(st, p)
        /\ IF waits
           THEN task' = [task EXCEPT ![x].at = "marking", ![x].peer = p,
                                     ![x].out = None, ![x].next = next] /\ dialing' = dialing
           ELSE Resumes(x, next, lk)
    BY DEF Disconnects
  <1>2. TableOK /\ TaskOK /\ NoStuckDial /\ dialing \subseteq Conns
    BY DEF Core, TableOK
  <1>3. c \in Conns \cup {None} /\ table \in [Peers -> Conns \cup {None}]
    BY <1>2 DEF TableOK
  <1>4. TaskOK' /\ NoStuckDial' /\ dialing' \subseteq Conns
    <2>1. CASE waits
      BY <1>1, <1>2, <2>1, WaitingOK DEF Target
    <2>2. CASE ~waits
      BY <1>1, <1>2, <2>2, ResumesOK
    <2> QED
      BY <2>1, <2>2
  <1>5. Marked(st, p) \in [Peers -> Statuses]
    BY DEF Marked, Statuses
  <1>6. link' \in [Conns -> LinkStates]
    BY <1>1, <1>3 DEF LinkStates
  <1>7. TableOK'
    <2>1. table' \in [Peers -> Conns \cup {None}]
      BY <1>1, <1>3
    <2>2. \A q \in Peers : table'[q] # None => PeerOf[table'[q]] = q
      BY <1>1, <1>2, <1>3 DEF TableOK
    <2>3. status' \in [Peers -> Statuses]
      BY <1>1, <1>5
    <2> QED
      BY <1>4, <1>6, <2>1, <2>2, <2>3 DEF TableOK
  <1>8. NoOrphanSocket'
    <2> SUFFICES ASSUME stage # "down", NEW k \in Conns, Alive(link'[k])
                 PROVE  table'[PeerOf[k]] = k
      BY DEF NoOrphanSocket
    <2>1. Alive(lk[k]) /\ ~(waits /\ k = c)
      BY <1>1, <1>3 DEF Alive
    <2>2. table[PeerOf[k]] = k
      BY <2>1 DEF Core, NoOrphanSocket
    <2>3. PeerOf[k] # p
      <3>1. ~Flagged(lk[k])
        BY <2>1 DEF Alive, Flagged
      <3>2. k # None
        BY HostAssumption DEF HostAssumption
      <3> QED
        BY <2>1, <2>2, <3>1, <3>2
    <2>4. PeerOf[k] \in Peers
      BY HostAssumption DEF HostAssumption
    <2> QED
      BY <1>1, <1>3, <2>2, <2>3, <2>4
  <1> QED
    BY <1>4, <1>7, <1>8 DEF Core

\* So does what follows a send or a disconnection.
LEMMA ReturnsOK ==
  ASSUME Core, stage' = stage, NEW x \in TaskIds, NEW next, Target(x, next),
         NEW st \in [Peers -> Statuses], Returns(x, next, st)
  PROVE  Core'
PROOF
  <1>1. CASE next \in Tops /\ ~GoesOn(x, link)
    <2>1. PICK k \in Conns : x = Loop(k)
      BY <1>1 DEF Target, Place, IsLoop
    <2>2. x[2] = k /\ PeerOf[k] \in Peers
      BY <2>1, Names, HostAssumption DEF HostAssumption
    <2>3. Disconnects(x, PeerOf[k], "ended", st, link)
      BY <1>1, <2>2 DEF Returns
    <2>4. Target(x, "ended")
      <3>1. ~IsReg(x)
        BY <2>1, Names DEF IsReg
      <3> QED
        BY <3>1 DEF Target, Place, Points, Tops
    <2>5. link \in [Conns -> LinkStates]
      BY DEF Core, TableOK
    <2> QED
      BY <2>2, <2>3, <2>4, <2>5, DisconnectsOK
  <1>2. CASE ~(next \in Tops /\ ~GoesOn(x, link))
    <2>1. status' = st /\ table' = table /\ link' = link /\ Resumes(x, next, link)
      BY <1>2 DEF Returns
    <2>2. TaskOK' /\ NoStuckDial' /\ dialing' \subseteq Conns
      BY <2>1, ResumesOK DEF Core, TableOK
    <2>3. TableOK'
      BY <2>1, <2>2 DEF Core, TableOK
    <2>4. NoOrphanSocket'
      BY <2>1 DEF Core, NoOrphanSocket
    <2> QED
      BY <2>2, <2>3, <2>4 DEF Core
  <1> QED
    BY <1>1, <1>2

\* So does send_to.
LEMMA SendsOK ==
  ASSUME Core, stage' = stage, NEW x \in TaskIds, NEW p \in Peers, NEW next, Target(x, next),
         NEW st \in [Peers -> Statuses], Sends(x, p, next, st)
  PROVE  Core'
PROOF
  <1>1. CASE table[p] # None /\ Alive(link[table[p]])
    <2>1. /\ task' = [task EXCEPT ![x].at = "sending", ![x].peer = p,
                                  ![x].out = table[p], ![x].next = next]
          /\ status' = st /\ table' = table /\ link' = link /\ dialing' = dialing
      BY <1>1 DEF Sends
    <2>2. table[p] \in Conns \cup {None}
      BY DEF Core, TableOK
    <2>3. TaskOK' /\ NoStuckDial'
      BY <1>1, <2>1, <2>2, WaitingOK DEF Core, TableOK, Target
    <2>4. TableOK'
      BY <2>1 DEF Core, TableOK
    <2>5. NoOrphanSocket'
      BY <2>1 DEF Core, NoOrphanSocket
    <2> QED
      BY <2>3, <2>4, <2>5 DEF Core
  <1>2. CASE ~(table[p] # None /\ Alive(link[table[p]]))
    BY <1>2, ReturnsOK DEF Sends
  <1> QED
    BY <1>1, <1>2

\* A coroutine that waits may be told to go on where its frame says.
LEMMA NextTarget ==
  ASSUME TaskOK, NEW x \in TaskIds, task[x].at \in {"sending", "marking"}
  PROVE  /\ Target(x, task[x].next)
         /\ task[x].next = "list" => Target(x, "top")
         /\ task[x].peer \in Peers
PROOF
  <1>1. FrameOK(x, task[x]) /\ task[x] \in Frame
    BY DEF TaskOK
  <1>2. Target(x, task[x].next)
    BY <1>1 DEF FrameOK, Target, Place, Frame
  <1>3. task[x].next = "list" => Target(x, "top")
    BY <1>2 DEF Target, Place, Tops, Points
  <1> QED
    BY <1>1, <1>2, <1>3 DEF FrameOK

\* The coroutine whose send or disconnection is over goes on properly.
LEMMA ContinuesOK ==
  ASSUME Core, stage' = stage, NEW x \in TaskIds, task[x].at \in {"sending", "marking"},
         NEW st \in [Peers -> Statuses], Continues(x, task[x].next, st)
  PROVE  Core'
PROOF
  <1>1. TaskOK
    BY DEF Core
  <1>2. CASE task[x].next = "list"
    <2>1. Target(x, "list") /\ Target(x, "top")
      BY <1>1, <1>2, NextTarget
    <2>2. PICK k \in Conns : x = Loop(k)
      BY <2>1 DEF Target, Place, Tops, IsLoop
    <2>3. PeerOf[x[2]] \in Peers
      BY <2>2, Names, HostAssumption DEF HostAssumption
    <2> QED
      BY <1>2, <2>1, <2>3, SendsOK DEF Continues
  <1>3. CASE task[x].next # "list"
    <2>1. Target(x, task[x].next)
      BY <1>1, NextTarget
    <2> QED
      BY <1>3, <2>1, ReturnsOK DEF Continues
  <1> QED
    BY <1>2, <1>3

\* Moving a coroutine that neither sends nor registers keeps the invariant.
LEMMA GotoOK ==
  ASSUME Core, NEW x \in TaskIds, ~IsReg(x), NEW point \in Points, Goto(x, point),
         ~(point \in {"sending", "marking", "recv"}),
         point = "idle" => x \in Singles, point = "pong" => task[x].peer \in Peers,
         UNCHANGED <<stage, table, status, link, dialing>>
  PROVE  Core'
PROOF
  <1>1. TaskOK /\ NoStuckDial /\ dialing \subseteq Conns
    BY DEF Core, TableOK
  <1>2. FrameOK(x, Settled(x, point))
    BY <1>1, SettledOK
  <1>3. task' = [task EXCEPT ![x] = Settled(x, point)]
    BY DEF Goto
  <1>4. \A k \in dialing' : x # Reg(k) /\ k \in dialing
    BY <1>1 DEF IsReg
  <1>5. TaskOK' /\ NoStuckDial'
    BY <1>1, <1>2, <1>3, <1>4, PutOK
  <1> QED
    BY <1>5 DEF Core, TableOK, NoOrphanSocket

-----------------------------------------------------------------------------
(* Making connections *)

\* A lost connection is registered as it was.
LEMMA LoseOK ==
  ASSUME Core, NEW k \in Conns, Lose(k) PROVE Core'
PROOF
  <1>1. PICK l \in {"cut", "silent", "reset"} : link' = [link EXCEPT ![k] = l]
    BY DEF Lose
  <1>2. link[k] = "open" /\ link \in [Conns -> LinkStates]
    BY DEF Lose, Core, TableOK
  <1>3. link' \in [Conns -> LinkStates] /\ \A j \in Conns : Alive(link'[j]) => Alive(link[j])
    BY <1>1, <1>2 DEF LinkStates, Alive
  <1>4. TableOK'
    BY <1>3 DEF Lose, Core, TableOK
  <1>5. NoOrphanSocket'
    BY <1>3 DEF Lose, Core, NoOrphanSocket
  <1>6. TaskOK' /\ NoStuckDial'
    BY DEF Lose, Core, TaskOK, NoStuckDial
  <1> QED
    BY <1>4, <1>5, <1>6 DEF Core

\* So is everything else while a handshake goes on, even one that is dialed.
LEMMA HandshakeOK ==
  ASSUME Core, NEW k \in Conns, Handshake(k), dialing' \in {dialing, dialing \cup {k}}
  PROVE  Core'
PROOF
  <1>1. /\ link[k] = "unused" /\ link' = [link EXCEPT ![k] = "handshake"]
        /\ task' = [task EXCEPT ![Reg(k)] = Settled(Reg(k), "handshake")]
        /\ UNCHANGED <<stage, table, status>>
    BY DEF Handshake, Goto
  <1>2. TaskOK /\ NoStuckDial /\ dialing \subseteq Conns /\ dialing' \subseteq Conns
    BY DEF Core, TableOK
  <1>3. Reg(k) \in TaskIds
    BY Names
  <1>4. FrameOK(Reg(k), Settled(Reg(k), "handshake")) /\ Settled(Reg(k), "handshake").at = "handshake"
    BY <1>2, <1>3, SettledOK DEF Points
  <1>5. \A j \in dialing' : j \in dialing \/ Reg(k) = Reg(j)
    OBVIOUS
  <1>6. TaskOK' /\ NoStuckDial'
    BY <1>1, <1>2, <1>3, <1>4, <1>5, PutOK
  <1>7. link' \in [Conns -> LinkStates] /\ \A j \in Conns : Alive(link'[j]) => Alive(link[j])
    BY <1>1 DEF Core, TableOK, LinkStates, Alive
  <1>8. TableOK'
    BY <1>1, <1>2, <1>7 DEF Core, TableOK
  <1>9. NoOrphanSocket'
    BY <1>1, <1>7 DEF Core, NoOrphanSocket
  <1> QED
    BY <1>6, <1>8, <1>9 DEF Core

\* A connection that is given up is closed, and its peer may be dialed again.
LEMMA GiveUpOK ==
  ASSUME Core, NEW k \in Conns, link' = [link EXCEPT ![k] = "closed"],
         Goto(Reg(k), "ended"), dialing' = dialing \ {k},
         UNCHANGED <<stage, table, status>>
  PROVE  Core'
PROOF
  <1>1. task' = [task EXCEPT ![Reg(k)] = Settled(Reg(k), "ended")]
    BY DEF Goto
  <1>2. TaskOK /\ NoStuckDial /\ dialing \subseteq Conns /\ dialing' \subseteq Conns
    BY DEF Core, TableOK
  <1>3. Reg(k) \in TaskIds
    BY Names
  <1>4. FrameOK(Reg(k), Settled(Reg(k), "ended"))
    BY <1>2, <1>3, SettledOK DEF Points
  <1>5. \A j \in dialing' : j \in dialing /\ Reg(k) # Reg(j)
    BY <1>2, Names
  <1>6. TaskOK' /\ NoStuckDial'
    BY <1>1, <1>2, <1>3, <1>4, <1>5, PutOK
  <1>7. link' \in [Conns -> LinkStates] /\ \A j \in Conns : Alive(link'[j]) => Alive(link[j])
    BY DEF Core, TableOK, LinkStates, Alive
  <1>8. TableOK'
    BY <1>2, <1>7 DEF Core, TableOK
  <1>9. NoOrphanSocket'
    BY <1>7 DEF Core, NoOrphanSocket
  <1> QED
    BY <1>6, <1>8, <1>9 DEF Core

\* A registration replaces no connection that is alive.
LEMMA RegisterOK ==
  ASSUME Core, NEW k \in Conns, Register(k) PROVE Core'
PROOF
  <1> DEFINE p == PeerOf[k]
  <1>1. CASE Duplicate(k)
    BY <1>1, GiveUpOK DEF Register
  <1>2. CASE ~Duplicate(k)
    <2>1. /\ link' = [link EXCEPT ![k] = "open"] /\ table' = [table EXCEPT ![p] = k]
          /\ status' = Updated(p, "CONNECTED")
          /\ task' = [task EXCEPT ![Reg(k)].at = "sending", ![Reg(k)].out = k,
                                  ![Reg(k)].next = "spawn"]
          /\ dialing' = dialing /\ stage' = stage
      BY <1>2 DEF Register
    <2>2. TaskOK /\ NoStuckDial /\ TableOK /\ dialing \subseteq Conns
      BY DEF Core, TableOK
    <2>3. Reg(k) \in TaskIds /\ ~(Reg(k) \in Singles) /\ IsReg(Reg(k))
      BY Names DEF IsReg
    <2> DEFINE f == [task[Reg(k)] EXCEPT !.at = "sending", !.out = k, !.next = "spawn"]
    <2>4. FrameOK(Reg(k), task[Reg(k)]) /\ task[Reg(k)] \in Frame
      BY <2>2, <2>3 DEF TaskOK
    <2>5. /\ f \in Frame /\ f.at = "sending" /\ f.out = k /\ f.next = "spawn"
          /\ f.peer = task[Reg(k)].peer
      BY <2>4 DEF Frame, Points
    <2>6. task' = [task EXCEPT ![Reg(k)] = f]
      BY <2>1, <2>2, <2>3 DEF TaskOK
    <2> HIDE DEF f
    <2>7. FrameOK(Reg(k), f)
      <3>1. k # None
        BY HostAssumption DEF HostAssumption
      <3> QED
        BY <2>3, <2>4, <2>5, <3>1 DEF FrameOK, Tops
    <2>8. TaskOK' /\ NoStuckDial'
      BY <2>1, <2>2, <2>3, <2>5, <2>6, <2>7, PutOK
    <2>9. p \in Peers
      BY HostAssumption DEF HostAssumption
    <2>10. TableOK'
      <3>1. status' \in [Peers -> Statuses]
        BY <2>1, <2>2 DEF Updated, Statuses, TableOK
      <3>2. link' \in [Conns -> LinkStates]
        BY <2>1, <2>2 DEF TableOK, LinkStates
      <3>3. table' \in [Peers -> Conns \cup {None}]
        BY <2>1, <2>2 DEF TableOK
      <3>4. \A q \in Peers : table'[q] # None => PeerOf[table'[q]] = q
        BY <2>1, <2>2, <2>9 DEF TableOK
      <3> QED
        BY <2>1, <2>2, <3>1, <3>2, <3>3, <3>4 DEF TableOK
    <2>11. NoOrphanSocket'
      <3> SUFFICES ASSUME stage # "down", NEW j \in Conns, Alive(link'[j])
                   PROVE  table'[PeerOf[j]] = j
        BY <2>1 DEF NoOrphanSocket
      <3>1. CASE j = k
        BY <2>1, <2>2, <2>9, <3>1 DEF TableOK
      <3>2. CASE j # k
        <4>1. Alive(link[j])
          BY <2>1, <2>2, <3>2 DEF TableOK
        <4>2. table[PeerOf[j]] = j
          BY <4>1 DEF Core, NoOrphanSocket
        <4>3. PeerOf[j] # p
          <5>1. j # None
            BY HostAssumption DEF HostAssumption
          <5> QED
            BY <1>2, <4>1, <4>2, <5>1 DEF Duplicate
        <4>4. PeerOf[j] \in Peers
          BY HostAssumption DEF HostAssumption
        <4> QED
          BY <2>1, <2>2, <4>2, <4>3, <4>4 DEF TableOK
      <3> QED
        BY <3>1, <3>2
    <2> QED
      BY <2>8, <2>10, <2>11 DEF Core
  <1> QED
    BY <1>1, <1>2

-----------------------------------------------------------------------------
(* Receive loops, sends and the heartbeat *)

\* Where a receive loop that reads may be told to go on
LEMMA ReadingLoop ==
  ASSUME Core, NEW k \in Conns, task[Loop(k)].at = "recv"
  PROVE  /\ Loop(k) \in TaskIds /\ task[Loop(k)].conn \in Conns
         /\ Target(Loop(k), "ended") /\ Target(Loop(k), "top") /\ Target(Loop(k), "list")
PROOF
  <1>1. Loop(k) \in TaskIds /\ ~IsReg(Loop(k)) /\ IsLoop(Loop(k))
    BY Names DEF IsReg, IsLoop
  <1>2. FrameOK(Loop(k), task[Loop(k)])
    BY <1>1 DEF Core, TaskOK
  <1>3. task[Loop(k)].conn \in Conns
    BY <1>2 DEF FrameOK, Frame
  <1>4. task[Loop(k)].conn # None
    BY <1>2 DEF FrameOK
  <1> QED
    BY <1>1, <1>3, <1>4 DEF Target, Place, Points, Tops

\* Flagging a connection as failed makes none alive.
LEMMA FailedOK ==
  ASSUME link \in [Conns -> LinkStates], NEW k \in Conns
  PROVE  /\ Failed(k) \in [Conns -> LinkStates]
         /\ \A j \in Conns : Alive(Failed(k)[j]) => Alive(link[j])
PROOF
  BY DEF Failed, LinkStates, Alive

LEMMA LoopStartOK ==
  ASSUME Core, NEW k \in Conns, LoopStart(k) PROVE Core'
PROOF
  <1> DEFINE x == Loop(k)
             c == table[PeerOf[k]]
  <1>1. x \in TaskIds /\ ~IsReg(x) /\ IsLoop(x) /\ PeerOf[k] \in Peers
    BY Names, HostAssumption DEF IsReg, IsLoop, HostAssumption
  <1>2. CASE c = None
    <2>1. Goto(x, "ended") /\ UNCHANGED <<stage, table, status, link, dialing>>
      BY <1>2 DEF LoopStart
    <2> HIDE DEF x
    <2> QED
      BY <1>1, <2>1, GotoOK DEF Points
  <1>3. CASE c # None /\ stage = "up" /\ Alive(link[c])
    <2>1. /\ task' = [task EXCEPT ![x].at = "recv", ![x].conn = c]
          /\ UNCHANGED <<stage, table, status, link, dialing>>
      BY <1>3 DEF LoopStart
    <2>2. TaskOK /\ NoStuckDial /\ TableOK /\ dialing \subseteq Conns
      BY DEF Core, TableOK
    <2>3. c \in Conns
      BY <1>1, <1>3, <2>2 DEF TableOK
    <2> DEFINE f == [task[x] EXCEPT !.at = "recv", !.conn = c]
    <2>4. FrameOK(x, task[x]) /\ task[x] \in Frame
      BY <1>1, <2>2 DEF TaskOK
    <2>5. /\ f \in Frame /\ f.at = "recv" /\ f.conn = c /\ f.next = task[x].next
          /\ f.peer = task[x].peer
      BY <2>3, <2>4 DEF Frame, Points
    <2>6. task' = [task EXCEPT ![x] = f]
      BY <1>1, <2>1, <2>2 DEF TaskOK
    <2> HIDE DEF f, x, c
    <2>7. FrameOK(x, f)
      BY <1>1, <1>3, <2>4, <2>5 DEF FrameOK
    <2>8. TaskOK' /\ NoStuckDial'
      BY <1>1, <2>1, <2>2, <2>5, <2>6, <2>7, PutOK
    <2> QED
      BY <2>1, <2>2, <2>8 DEF Core, TableOK, NoOrphanSocket
  <1>4. CASE c # None /\ ~(stage = "up" /\ Alive(link[c]))
    <2>1. Disconnects(x, PeerOf[k], "ended", status, link) /\ stage' = stage
      BY <1>4 DEF LoopStart
    <2>2. Target(x, "ended")
      BY <1>1 DEF Target, Place, Points, Tops
    <2> HIDE DEF x
    <2> QED
      BY <1>1, <2>1, <2>2, DisconnectsOK DEF Core, TableOK
  <1> QED
    BY <1>2, <1>3, <1>4

\* A receive loop that reads a frame, or cannot
LEMMA ServingOK ==
  ASSUME Core, NEW k \in Conns, Serving(k) PROVE Core'
PROOF
  <1>1. CASE LoopStart(k)
    BY <1>1, LoopStartOK
  <1>2. PeerOf[k] \in Peers /\ status \in [Peers -> Statuses] /\ link \in [Conns -> LinkStates]
    BY HostAssumption DEF HostAssumption, Core, TableOK
  <1>3. CASE LoopFails(k)
    <2>1. /\ task[Loop(k)].at = "recv" /\ stage' = stage
          /\ Disconnects(Loop(k), PeerOf[k], "ended", status, Failed(task[Loop(k)].conn))
      BY <1>3 DEF LoopFails, At
    <2>2. /\ Loop(k) \in TaskIds /\ task[Loop(k)].conn \in Conns
          /\ Target(Loop(k), "ended")
      BY <2>1, ReadingLoop
    <2> QED
      BY <1>2, <2>1, <2>2, FailedOK, DisconnectsOK
  <1>4. CASE LoopBans(k)
    <2>1. /\ task[Loop(k)].at = "recv" /\ stage' = stage
          /\ Disconnects(Loop(k), PeerOf[k], "ended", [status EXCEPT ![PeerOf[k]] = "BANNED"], link)
      BY <1>4 DEF LoopBans, Frames, At
    <2>2. [status EXCEPT ![PeerOf[k]] = "BANNED"] \in [Peers -> Statuses]
      BY <1>2 DEF Statuses
    <2>3. Loop(k) \in TaskIds /\ Target(Loop(k), "ended")
      BY <2>1, ReadingLoop
    <2> QED
      BY <1>2, <2>1, <2>2, <2>3, DisconnectsOK
  <1>5. CASE LoopCard(k)
    <2>1. /\ task[Loop(k)].at = "recv" /\ stage' = stage
          /\ Sends(Loop(k), PeerOf[k], "list", Updated(PeerOf[k], "VERIFIED"))
      BY <1>5 DEF LoopCard, Frames, At
    <2>2. Updated(PeerOf[k], "VERIFIED") \in [Peers -> Statuses]
      BY <1>2 DEF Updated, Statuses
    <2>3. Loop(k) \in TaskIds /\ Target(Loop(k), "list")
      BY <2>1, ReadingLoop
    <2> QED
      BY <1>2, <2>1, <2>2, <2>3, SendsOK
  <1>6. CASE LoopAnswers(k)
    <2>1. /\ task[Loop(k)].at = "recv" /\ stage' = stage
          /\ Sends(Loop(k), PeerOf[k], "top", status)
      BY <1>6 DEF LoopAnswers, Frames, At
    <2>2. Loop(k) \in TaskIds /\ Target(Loop(k), "top")
      BY <2>1, ReadingLoop
    <2> QED
      BY <1>2, <2>1, <2>2, SendsOK
  <1>7. CASE LoopDrops(k)
    <2>1. task[Loop(k)].at = "recv" /\ stage' = stage /\ Returns(Loop(k), "top", status)
      BY <1>7 DEF LoopDrops, Frames, At
    <2>2. Loop(k) \in TaskIds /\ Target(Loop(k), "top")
      BY <2>1, ReadingLoop
    <2> QED
      BY <1>2, <2>1, <2>2, ReturnsOK
  <1>8. CASE LoopGoodbye(k)
    <2>1. /\ task[Loop(k)].at = "recv" /\ stage' = stage
          /\ Disconnects(Loop(k), PeerOf[k], "top", status, link)
      BY <1>8 DEF LoopGoodbye, Frames, At
    <2>2. Loop(k) \in TaskIds /\ Target(Loop(k), "top")
      BY <2>1, ReadingLoop
    <2> QED
      BY <1>2, <2>1, <2>2, DisconnectsOK
  <1> QED
    BY <1>1, <1>3, <1>4, <1>5, <1>6, <1>7, <1>8 DEF Serving

\* A send or a disconnection that ends
LEMMA ResumingOK ==
  ASSUME Core, NEW x \in TaskIds, Resuming(x)
  PROVE  Core' /\ UNCHANGED <<stage, closing>>
               /\ todo' \subseteq todo /\ dead' \subseteq dead \cup Peers
PROOF
  <1>1. status \in [Peers -> Statuses] /\ link \in [Conns -> LinkStates] /\ TaskOK
    BY DEF Core, TableOK
  <1>2. CASE Mark(x)
    <2>1. Marked(status, task[x].peer) \in [Peers -> Statuses]
      BY <1>1 DEF Marked, Statuses
    <2> QED
      BY <1>2, <2>1, ContinuesOK DEF Mark, At
  <1>3. CASE SendDone(x)
    BY <1>1, <1>3, ContinuesOK DEF SendDone, At
  <1>4. CASE SendFails(x)
    <2> DEFINE f == task[x]
    <2>1. f.at = "sending" /\ stage' = stage /\ closing' = closing
      BY <1>4 DEF SendFails, At
    <2>2. FrameOK(x, f)
      BY <1>1 DEF TaskOK
    <2>3. f.out \in Conns /\ f.peer \in Peers
      BY <2>1, <2>2 DEF FrameOK, Frame
    <2>4. /\ Failed(f.out) \in [Conns -> LinkStates]
          /\ \A j \in Conns : Alive(Failed(f.out)[j]) => Alive(link[j])
      BY <1>1, <2>3, FailedOK
    <2>5. CASE x = Heartbeat
      <3>1. /\ todo' = todo \ {f.peer} /\ dead' = dead \cup {f.peer}
            /\ Disconnects(x, f.peer, "probe", status, Failed(f.out))
        BY <1>4, <2>5 DEF SendFails
      <3>2. Target(x, "probe")
        BY <2>5, Names DEF Target, Place, Points, Tops, IsReg
      <3>3. Core'
        BY <1>1, <2>1, <2>3, <2>4, <3>1, <3>2, DisconnectsOK
      <3> QED
        BY <2>1, <2>3, <3>1, <3>3
    <2>6. CASE x # Heartbeat
      <3>1. /\ todo' = todo /\ dead' = dead
            /\ Disconnects(x, f.peer, f.next, status, Failed(f.out))
        BY <1>4, <2>6 DEF SendFails
      <3>2. Target(x, f.next)
        BY <1>1, <2>1, NextTarget
      <3>3. Core'
        BY <1>1, <2>1, <2>3, <2>4, <3>1, <3>2, DisconnectsOK
      <3> QED
        BY <2>1, <3>1, <3>3
    <2> QED
      BY <2>5, <2>6
  <1> QED
    BY <1>2, <1>3, <1>4 DEF Resuming

\* The heartbeat
LEMMA BeatingOK ==
  ASSUME Inv, Beating PROVE Inv'
PROOF
  <1>1. Core /\ TaskOK /\ Heartbeat \in TaskIds /\ ~IsReg(Heartbeat) /\ Heartbeat \in Singles
    BY Names DEF Inv, Core, IsReg
  <1>2. FrameOK(Heartbeat, task[Heartbeat])
    BY <1>1 DEF TaskOK
  <1>3. status \in [Peers -> Statuses] /\ link \in [Conns -> LinkStates]
    BY <1>1 DEF Core, TableOK
  <1>4. Target(Heartbeat, "probe")
    BY <1>1 DEF Target, Place, Points, Tops
  <1>5. CASE BeatRound
    <2>1. Core'
      BY <1>1, <1>5, GotoOK DEF BeatRound, Points
    <2> QED
      BY <1>5, <2>1 DEF BeatRound, Inv, ListsOK, Registered
  <1>6. CASE BeatPong
    <2>1. Core'
      BY <1>1, <1>6, GotoOK DEF BeatPong, Points
    <2> QED
      BY <1>6, <2>1 DEF BeatPong, Inv, ListsOK
  <1>7. CASE BeatTimeout
    <2>1. Core'
      BY <1>1, <1>7, GotoOK DEF BeatTimeout, Points
    <2>2. task[Heartbeat].peer \in Peers
      BY <1>2, <1>7 DEF FrameOK, BeatTimeout, At
    <2> QED
      BY <1>7, <2>1, <2>2 DEF BeatTimeout, Inv, ListsOK
  <1>8. CASE BeatOver
    <2> DEFINE point == IF stage = "up" THEN "idle" ELSE "ended"
    <2>1. Goto(Heartbeat, point) /\ UNCHANGED <<stage, table, status, link, dialing, todo, dead, closing>>
      BY <1>8 DEF BeatOver
    <2>2. point \in Points /\ ~(point \in {"sending", "marking", "recv"}) /\ point # "pong"
      BY DEF Points
    <2> HIDE DEF point
    <2>3. Core'
      BY <1>1, <2>1, <2>2, GotoOK
    <2> QED
      BY <2>1, <2>3 DEF Inv, ListsOK
  <1>9. ASSUME NEW p \in Peers, BeatProbe(p) PROVE Inv'
    <2>1. CASE table[p] # None /\ Alive(link[table[p]])
      <3>1. /\ task' = [task EXCEPT ![Heartbeat].at = "sending", ![Heartbeat].peer = p,
                                    ![Heartbeat].out = table[p], ![Heartbeat].next = "pong"]
            /\ UNCHANGED <<stage, table, status, link, dialing, todo, dead, closing>>
        BY <1>9, <2>1 DEF BeatProbe, Sends
      <3>2. TableOK /\ NoStuckDial /\ dialing \subseteq Conns
        BY <1>1 DEF Core, TableOK
      <3>3. table[p] \in Conns \cup {None} /\ table[p] # None
        BY <2>1, <3>2 DEF TableOK
      <3>4. Place(Heartbeat, "pong")
        BY <1>1 DEF Place, Points, Tops
      <3>5. TaskOK' /\ NoStuckDial'
        BY <1>1, <3>1, <3>2, <3>3, <3>4, WaitingOK
      <3> QED
        BY <3>1, <3>5 DEF Inv, ListsOK, Core, TableOK, NoOrphanSocket
    <2>2. CASE ~(table[p] # None /\ Alive(link[table[p]]))
      <3>1. /\ todo' = todo \ {p} /\ dead' = dead \cup {p}
            /\ UNCHANGED <<stage, table, status, link, task, dialing, closing>>
        BY <1>9, <2>2 DEF BeatProbe
      <3> QED
        BY <3>1 DEF Inv, ListsOK, Core, TableOK, TaskOK, NoOrphanSocket, NoStuckDial
    <2> QED
      BY <2>1, <2>2
  <1>10. ASSUME NEW p \in Peers, BeatDrop(p) PROVE Inv'
    <2>1. Core'
      BY <1>1, <1>3, <1>4, <1>10, DisconnectsOK DEF BeatDrop
    <2> QED
      BY <1>10, <2>1 DEF BeatDrop, Inv, ListsOK
  <1> QED
    BY <1>5, <1>6, <1>7, <1>8, <1>9, <1>10 DEF Beating

-----------------------------------------------------------------------------
(* stop() *)

\* Cancelling the heartbeat and the loops leaves the registrations alone.
LEMMA StopCancelOK ==
  ASSUME Inv, StopCancel PROVE Inv'
PROOF
  <1> DEFINE Cancelled(x) == x = Heartbeat \/ (x[1] = "loop" /\ task[x].at # "none")
  <1>1. /\ task' = [x \in TaskIds |-> IF Cancelled(x) THEN Settled(x, "ended") ELSE task[x]]
        /\ stage' = "closing" /\ stage = "goodbye" /\ todo' = {} /\ dead' = {}
        /\ closing' = {table[p] : p \in Registered}
        /\ UNCHANGED <<table, status, link, dialing>>
    BY DEF StopCancel
  <1>2. TaskOK /\ TableOK /\ NoStuckDial
    BY DEF Inv, Core
  <1>3. \A x \in TaskIds : FrameOK(x, Settled(x, "ended"))
    BY <1>2, SettledOK DEF Points
  <1>4. \A x \in TaskIds : FrameOK(x, task'[x])
    <2> HIDE DEF Cancelled
    <2> QED
      BY <1>1, <1>2, <1>3 DEF TaskOK
  <1>5. task' \in [TaskIds -> Frame]
    <2>1. \A x \in TaskIds : task'[x] \in Frame
      BY <1>4 DEF FrameOK
    <2> HIDE DEF Cancelled
    <2> QED
      BY <1>1, <2>1
  <1>6. NoStuckDial'
    <2> SUFFICES ASSUME NEW k \in dialing PROVE task'[Reg(k)].at # "ended"
      BY <1>1 DEF NoStuckDial
    <2>1. k \in Conns
      BY <1>2 DEF TableOK
    <2>2. Reg(k) \in TaskIds /\ Reg(k) # Heartbeat
      BY <2>1, Names
    <2>3. Reg(k)[1] # "loop"
      BY DEF Reg
    <2>4. task'[Reg(k)] = task[Reg(k)]
      BY <1>1, <2>2, <2>3
    <2> QED
      BY <1>2, <2>4 DEF NoStuckDial
  <1>7. closing' \subseteq Conns
    BY <1>1, <1>2 DEF TableOK, Registered
  <1>8. Core'
    BY <1>1, <1>2, <1>4, <1>5, <1>6 DEF Inv, Core, TaskOK, TableOK, NoOrphanSocket
  <1> QED
    BY <1>1, <1>7, <1>8 DEF Inv, ListsOK

\* The other steps of stop()
LEMMA StopOK ==
  ASSUME Inv, StopBegin \/ StopClear \/ \E k \in Conns : StopGoodbye(k) \/ StopClose(k)
  PROVE  Inv'
PROOF
  <1>1. TaskOK /\ TableOK /\ NoStuckDial /\ NoOrphanSocket
    BY DEF Inv, Core
  <1>2. CASE StopBegin
    <2>1. closing' \subseteq Conns
      BY <1>1, <1>2 DEF StopBegin, TableOK, Registered
    <2> QED
      BY <1>1, <1>2, <2>1
         DEF StopBegin, Inv, ListsOK, Core, TaskOK, TableOK, NoStuckDial, NoOrphanSocket
  <1>3. CASE StopClear
    <2>1. stage' = "down" /\ table' = [p \in Peers |-> None]
          /\ UNCHANGED <<status, link, task, dialing, todo, dead, closing>>
      BY <1>3 DEF StopClear
    <2>2. TableOK'
      BY <1>1, <2>1 DEF TableOK
    <2>3. NoOrphanSocket' /\ NoStuckDial' /\ TaskOK'
      BY <1>1, <2>1 DEF NoOrphanSocket, NoStuckDial, TaskOK
    <2> QED
      BY <2>1, <2>2, <2>3 DEF Inv, ListsOK, Core
  <1>4. ASSUME NEW k \in Conns, StopGoodbye(k) PROVE Inv'
    <2>1. UNCHANGED <<stage, table, status, link, dialing, todo, dead>> /\ closing' \subseteq Conns
      BY <1>4 DEF StopGoodbye, Inv, ListsOK
    <2>2. TaskOK' /\ NoStuckDial'
      <3>1. CASE task' = task
        BY <1>1, <2>1, <3>1 DEF TaskOK, NoStuckDial
      <3>2. CASE task' # task
        <4>1. task' = [task EXCEPT ![Caller].at = "sending", ![Caller].peer = PeerOf[k],
                                   ![Caller].out = k, ![Caller].next = "idle"]
          BY <1>4, <3>2 DEF StopGoodbye
        <4>2. Caller \in TaskIds /\ Place(Caller, "idle")
          BY Names DEF Place, Points, Tops, IsReg
        <4>3. PeerOf[k] \in Peers /\ k # None
          BY HostAssumption DEF HostAssumption
        <4> QED
          BY <1>1, <2>1, <4>1, <4>2, <4>3, WaitingOK DEF TableOK
      <3> QED
        BY <3>1, <3>2
    <2> QED
      BY <1>1, <2>1, <2>2 DEF Inv, ListsOK, Core, TableOK, NoOrphanSocket
  <1>5. ASSUME NEW k \in Conns, StopClose(k) PROVE Inv'
    <2>1. UNCHANGED <<stage, table, status, task, dialing, todo, dead>> /\ closing' \subseteq Conns
      BY <1>5 DEF StopClose, Inv, ListsOK
    <2>2. link' \in [Conns -> LinkStates] /\ \A j \in Conns : Alive(link'[j]) => Alive(link[j])
      BY <1>1, <1>5 DEF StopClose, TableOK, LinkStates, Alive
    <2> QED
      BY <1>1, <2>1, <2>2
         DEF Inv, ListsOK, Core, TaskOK, TableOK, NoStuckDial, NoOrphanSocket
  <1> QED
    BY <1>2, <1>3, <1>4, <1>5

-----------------------------------------------------------------------------
(* Theorems *)

LEMMA InvInit == Init => Inv
PROOF
  <1> SUFFICES ASSUME Init PROVE Inv
    OBVIOUS
  <1>1. \A x \in TaskIds : FrameOK(x, NewFrame(x))
    BY NewFrameOK DEF FrameOK, Tops
  <1>2. TaskOK
    BY <1>1, NewFrameOK DEF Init, TaskOK
  <1> QED
    BY <1>2 DEF Init, Inv, ListsOK, Core, TableOK, NoOrphanSocket, NoStuckDial,
                Statuses, LinkStates, Alive

LEMMA InvStep == Inv /\ [Next]_vars => Inv'
PROOF
  <1> SUFFICES ASSUME Inv, [Next]_vars PROVE Inv'
    OBVIOUS
  <1>1. Core /\ ListsOK
    BY DEF Inv
  <1>2. ASSUME NEW k \in Conns, Connecting(k) PROVE Inv'
    <2>1. CASE Lose(k)
      BY <1>1, <2>1, LoseOK DEF Lose, Inv, ListsOK
    <2>2. CASE Accept(k)
      <3>1. Core'
        BY <1>1, <2>2, HandshakeOK DEF Accept
      <3> QED
        BY <1>1, <2>2, <3>1 DEF Accept, Handshake, Inv, ListsOK
    <2>3. CASE Dial(k)
      <3>1. Core'
        BY <1>1, <2>3, HandshakeOK DEF Dial
      <3> QED
        BY <1>1, <2>3, <3>1 DEF Dial, Handshake, Inv, ListsOK
    <2>4. CASE HandshakeFails(k)
      <3>1. Core'
        BY <1>1, <2>4, GiveUpOK DEF HandshakeFails
      <3> QED
        BY <1>1, <2>4, <3>1 DEF HandshakeFails, Inv, ListsOK
    <2>5. CASE Register(k)
      <3>1. Core'
        BY <1>1, <2>5, RegisterOK
      <3> QED
        BY <1>1, <2>5, <3>1 DEF Register, Inv, ListsOK
    <2>6. CASE StopGoodbye(k) \/ StopClose(k)
      BY <2>6, StopOK
    <2> QED
      BY <1>2, <2>1, <2>2, <2>3, <2>4, <2>5, <2>6 DEF Connecting
  <1>3. ASSUME NEW k \in Conns, Serving(k) PROVE Inv'
    <2>1. Core'
      BY <1>1, <1>3, ServingOK
    <2>2. UNCHANGED <<stage, todo, dead, closing>>
      BY <1>3 DEF Serving, LoopStart, LoopFails, LoopBans, LoopCard, LoopAnswers,
                  LoopDrops, LoopGoodbye
    <2> QED
      BY <1>1, <2>1, <2>2 DEF Inv, ListsOK
  <1>4. ASSUME NEW p \in Peers, Send(p) \/ Disconnect(p) PROVE Inv'
    <2>1. Caller \in TaskIds /\ Target(Caller, "idle")
      BY Names DEF Target, Place, Points, Tops, IsReg
    <2>2. UNCHANGED <<stage, todo, dead, closing>>
      BY <1>4 DEF Send, Disconnect
    <2>3. CASE Sends(Caller, p, "idle", status)
      BY <1>1, <2>1, <2>2, <2>3, SendsOK DEF Core, TableOK, Inv, ListsOK
    <2>4. CASE Disconnects(Caller, p, "idle", status, link)
      BY <1>1, <2>1, <2>2, <2>4, DisconnectsOK DEF Core, TableOK, Inv, ListsOK
    <2> QED
      BY <1>4, <2>3, <2>4 DEF Send, Disconnect
  <1>5. CASE Beating
    BY <1>5, BeatingOK
  <1>6. ASSUME NEW x \in TaskIds, Resuming(x) PROVE Inv'
    BY <1>1, <1>6, ResumingOK DEF Inv, ListsOK
  <1>7. CASE StopBegin \/ StopClear
    BY <1>7, StopOK
  <1>8. CASE StopCancel
    BY <1>8, StopCancelOK
  <1>9. CASE UNCHANGED vars
    BY <1>1, <1>9
       DEF vars, Inv, ListsOK, Core, TableOK, TaskOK, NoOrphanSocket, NoStuckDial
  <1> QED
    BY <1>2, <1>3, <1>4, <1>5, <1>6, <1>7, <1>8, <1>9 DEF Next

LEMMA InvAlways == Spec => []Inv
PROOF
  BY InvInit, InvStep, PTL DEF Spec

\* The host's table, statuses, connections and coroutines are well typed; a
\* coroutine that reads or writes does so on a connection.
THEOREM TypeCorrect == Spec => []TypeOK
PROOF
  <1>1. Inv => TypeOK
    BY DEF Inv, ListsOK, Core, TableOK, TaskOK, FrameOK, TypeOK, At
  <1> QED
    BY <1>1, InvAlways, PTL

\* However its coroutines are interleaved, the host loses no socket while it
\* runs: each connection that is alive is the registered one of its peer.
THEOREM NoneOrphaned == Spec => []NoOrphanSocket
PROOF
  <1>1. Inv => NoOrphanSocket
    BY DEF Inv, Core
  <1> QED
    BY <1>1, InvAlways, PTL

\* No peer stays in _dialing once the dial to it is over.
THEOREM DialsEnd == Spec => []NoStuckDial
PROOF
  <1>1. Inv => NoStuckDial
    BY DEF Inv, Core
  <1> QED
    BY <1>1, InvAlways, PTL

-----------------------------------------------------------------------------
(* Readers and stranded peers: the inductive invariant *)

\* k has not been registered yet.
FreshIn(lk, k) == lk[k] \in {"unused", "handshake"}

\* The coroutine that makes connection k, and the receive loop it leaves.
RegFrame(k) ==
  LET f == task[Reg(k)] IN
  /\ f.at \in {"none", "handshake", "sending", "marking", "ended"}
  /\ f.peer = PeerOf[k]
  /\ f.at = "handshake" => link[k] = "handshake"
  /\ f.at \in {"sending", "marking", "ended"} => ~FreshIn(link, k)
  /\ f.at # "ended" => task[Loop(k)].at = "none"

\* A receive loop that waits for a disconnection has taken the connection it
\* read out of the table, for good.
LoopFrame(k) ==
  LET f == task[Loop(k)] IN
  /\ f.at \in {"none", "created", "recv", "sending", "marking", "ended"}
  /\ f.peer = PeerOf[k]
  /\ f.at \in {"recv", "sending"} => f.conn # None
  /\ f.conn # None => ~FreshIn(link, f.conn)
  /\ f.at = "sending" => f.next \in Tops
  /\ f.at = "marking" => /\ f.next \in Tops \cup {"ended"}
                         /\ f.conn # None => table[PeerOf[k]] # f.conn

Tidy ==
  /\ \A k \in Conns : RegFrame(k) /\ LoopFrame(k)
  /\ \A x \in TaskIds : task[x].at = "sending" => ~FreshIn(link, task[x].out)
  /\ \A p \in Peers : table[p] # None => ~FreshIn(link, table[p])

\* EntryHasReader for p
Watched(p) ==
  table[p] # None =>
    \/ task[Reg(table[p])].at # "ended"
    \/ \E k \in Conns : PeerOf[k] = p /\ Reads(Loop(k), table[p])

\* NeverStranded for p: whom it is waiting for
Pending(x, p) ==
  /\ task[x].peer = p
  /\ At(x, "marking") \/ (x[1] = "loop" /\ task[x].at \in {"recv", "sending"})

Awaited(p) ==
  status[p] = "VERIFIED" /\ table[p] = None => \E x \in TaskIds : Pending(x, p)

Attended == Tidy /\ \A p \in Peers : Watched(p) /\ Awaited(p)

UpInv == stage = "up" => Attended

-----------------------------------------------------------------------------
(* What a step of one coroutine may disturb *)

\* x is a coroutine of peer p that is running.
Acting(x, p) ==
  /\ \A k \in Conns : x = Reg(k) \/ x = Loop(k) => PeerOf[k] = p
  /\ \A k \in Conns : x = Loop(k) => task[x].at # "none"
  /\ At(x, "marking") => task[x].peer = p

\* No connection comes back to where it was before its registration, and only
\* its own coroutine gets it out of there.
Steady(x, lk) ==
  \A k \in Conns : IF FreshIn(link, k) THEN x = Reg(k) \/ lk[k] = link[k]
                   ELSE ~FreshIn(lk, k)

\* A step of x changes frames only of x and of the loop it creates.
OnlyFrame(x) ==
  \A y \in TaskIds :
    \/ y = x
    \/ task'[y] = task[y]
    \/ \E k \in Conns : /\ x = Reg(k) /\ y = Loop(k)
                        /\ task'[y] = [task[y] EXCEPT !.at = "created"]

\* A step of a coroutine of peer p keeps the invariant if it does so for p.
LEMMA LocalStep ==
  ASSUME Core, Core', Attended,
         NEW x \in TaskIds, NEW p \in Peers, Acting(x, p),
         OnlyFrame(x), Steady(x, link'),
         \A q \in Peers : q # p => /\ table'[q] = table[q]
                                   /\ status'[q] = "VERIFIED" => status[q] = "VERIFIED",
         table'[p] # None => /\ ~FreshIn(link', table'[p])
                             /\ table'[p] = table[p] \/ FreshIn(link, table'[p]),
         \A k \in Conns : (x = Reg(k) => RegFrame(k)') /\ (x = Loop(k) => LoopFrame(k)'),
         task'[x].at = "sending" => ~FreshIn(link', task'[x].out),
         Watched(p)', Awaited(p)'
  PROVE  Attended'
PROOF
  <1>1. TaskOK /\ TableOK /\ TaskOK' /\ TableOK' /\ Tidy
    BY DEF Core, Attended
  <1>2. \A k \in Conns : Reg(k) \in TaskIds /\ Loop(k) \in TaskIds /\ PeerOf[k] \in Peers
    BY Names, HostAssumption DEF HostAssumption
  <1>3. \A k \in Conns : ~FreshIn(link, k) => ~FreshIn(link', k)
    BY DEF Steady
  <1>4. ASSUME NEW k \in Conns, x # Reg(k) PROVE RegFrame(k)'
    <2>1. RegFrame(k)
      BY <1>1 DEF Tidy
    <2>2. task'[Reg(k)] = task[Reg(k)]
      BY <1>2, <1>4, Names DEF OnlyFrame
    <2>3. link'[k] = link[k] \/ (~FreshIn(link, k) /\ ~FreshIn(link', k))
      BY <1>4 DEF Steady
    <2>4. task[Reg(k)].at # "ended" => task'[Loop(k)].at = "none"
      <3>1. task[Reg(k)].at # "ended" => task[Loop(k)].at = "none"
        BY <2>1 DEF RegFrame
      <3>2. task[Loop(k)].at = "none" => x # Loop(k)
        BY DEF Acting
      <3>3. x # Loop(k) => task'[Loop(k)] = task[Loop(k)]
        <4>1. \A j \in Conns : x = Reg(j) /\ Loop(k) = Loop(j) => FALSE
          BY <1>4, Names
        <4> QED
          BY <1>2, <4>1 DEF OnlyFrame
      <3> QED
        BY <3>1, <3>2, <3>3
    <2> QED
      BY <2>1, <2>2, <2>3, <2>4 DEF RegFrame, FreshIn
  <1>5. ASSUME NEW k \in Conns, x # Loop(k) PROVE LoopFrame(k)'
    <2>1. LoopFrame(k) /\ task[Loop(k)] \in Frame
      BY <1>1, <1>2 DEF Tidy, TaskOK
    <2>2. task'[Loop(k)] = task[Loop(k)] \/ task'[Loop(k)] = [task[Loop(k)] EXCEPT !.at = "created"]
      BY <1>2, <1>5 DEF OnlyFrame
    <2>3. /\ task'[Loop(k)].peer = task[Loop(k)].peer
          /\ task'[Loop(k)].conn = task[Loop(k)].conn
          /\ task'[Loop(k)].next = task[Loop(k)].next
          /\ task'[Loop(k)].at \in {task[Loop(k)].at, "created"}
      BY <2>1, <2>2 DEF Frame
    <2>4. task[Loop(k)].conn # None => /\ ~FreshIn(link, task[Loop(k)].conn)
                                       /\ ~FreshIn(link', task[Loop(k)].conn)
      BY <1>3, <2>1 DEF LoopFrame, Frame
    <2>5. table'[PeerOf[k]] = table[PeerOf[k]] \/ table'[PeerOf[k]] = None
          \/ FreshIn(link, table'[PeerOf[k]])
      BY <1>2
    <2> QED
      BY <2>1, <2>3, <2>4, <2>5 DEF LoopFrame
  <1>6. ASSUME NEW y \in TaskIds, task'[y].at = "sending" PROVE ~FreshIn(link', task'[y].out)
    <2>1. CASE y # x
      <3>1. task[y] \in Frame /\ FrameOK(y, task[y])
        BY <1>1 DEF TaskOK
      <3>2. task'[y] = task[y]
        <4>1. task'[y] # [task[y] EXCEPT !.at = "created"]
          BY <1>6, <3>1 DEF Frame
        <4> QED
          BY <2>1, <4>1 DEF OnlyFrame
      <3>3. task[y].out \in Conns /\ ~FreshIn(link, task[y].out)
        BY <1>1, <1>6, <3>1, <3>2 DEF Tidy, FrameOK, Frame
      <3> QED
        BY <1>3, <3>2, <3>3
    <2> QED
      BY <1>6, <2>1
  <1>7. ASSUME NEW q \in Peers, table'[q] # None PROVE ~FreshIn(link', table'[q])
    <2>1. CASE q # p
      BY <1>1, <1>3, <1>7, <2>1 DEF Tidy, TableOK
    <2> QED
      BY <1>7, <2>1
  <1>8. ASSUME NEW q \in Peers, q # p PROVE Watched(q)'
    <2> SUFFICES ASSUME table[q] # None
                 PROVE  \/ task'[Reg(table[q])].at # "ended"
                        \/ \E k \in Conns : PeerOf[k] = q /\ Reads(Loop(k), table[q])'
      BY <1>8 DEF Watched
    <2>1. table[q] \in Conns /\ PeerOf[table[q]] = q
      BY <1>1 DEF TableOK
    <2>2. CASE task[Reg(table[q])].at # "ended"
      <3>1. task'[Reg(table[q])] = task[Reg(table[q])]
        BY <1>2, <1>8, <2>1, Names DEF OnlyFrame, Acting
      <3> QED
        BY <2>2, <3>1
    <2>3. ASSUME NEW k \in Conns, PeerOf[k] = q, Reads(Loop(k), table[q])
          PROVE  Reads(Loop(k), table[q])'
      <3>1. task'[Loop(k)] = task[Loop(k)]
        <4>1. x # Loop(k)
          BY <1>8, <2>3 DEF Acting
        <4>2. \A j \in Conns : x = Reg(j) => Loop(k) # Loop(j)
          BY <1>8, <2>3, Names DEF Acting
        <4> QED
          BY <1>2, <4>1, <4>2 DEF OnlyFrame
      <3> QED
        BY <1>8, <2>3, <3>1 DEF Reads, At
    <2> QED
      <3>1. \/ task[Reg(table[q])].at # "ended"
            \/ \E k \in Conns : PeerOf[k] = q /\ Reads(Loop(k), table[q])
        BY DEF Attended, Watched
      <3> QED
        BY <2>2, <2>3, <3>1
  <1>9. ASSUME NEW q \in Peers, q # p PROVE Awaited(q)'
    <2> SUFFICES ASSUME status[q] = "VERIFIED", table[q] = None
                 PROVE  \E y \in TaskIds : Pending(y, q)'
      BY <1>9 DEF Awaited
    <2>1. PICK y \in TaskIds : Pending(y, q)
      BY DEF Attended, Awaited
    <2>2. \A k \in Conns : y = Loop(k) => PeerOf[k] = q
      BY <1>1, <2>1 DEF Tidy, LoopFrame, Pending
    <2>3. y # x
      <3>1. CASE At(y, "marking")
        BY <1>9, <2>1, <3>1 DEF Acting, Pending
      <3>2. CASE y[1] = "loop"
        <4>1. PICK k \in Conns : y = Loop(k)
          BY <3>2 DEF TaskIds, Singles, Heartbeat, Caller, Loop
        <4> QED
          BY <1>9, <2>2, <4>1 DEF Acting
      <3> QED
        BY <2>1, <3>1, <3>2 DEF Pending
    <2>4. task'[y] = task[y]
      <3>1. \A k \in Conns : x = Reg(k) => y # Loop(k)
        BY <1>9, <2>2 DEF Acting
      <3> QED
        BY <2>3, <3>1 DEF OnlyFrame
    <2> QED
      BY <2>1, <2>4 DEF Pending, At
  <1>10. \A k \in Conns : RegFrame(k)' /\ LoopFrame(k)'
    BY <1>4, <1>5
  <1>11. Tidy'
    BY <1>6, <1>7, <1>10 DEF Tidy
  <1>12. \A q \in Peers : Watched(q)' /\ Awaited(q)'
    BY <1>8, <1>9
  <1> QED
    BY <1>11, <1>12 DEF Attended

-----------------------------------------------------------------------------
(* Going on, disconnecting and sending *)

\* x runs for peer p and is told to go on at `next'.
Turn(x, p, next) ==
  /\ Acting(x, p) /\ Target(x, next)
  /\ \A k \in Conns :
       /\ x = Reg(k) => next = "spawn" /\ task[x].at \in {"sending", "marking"}
       /\ x = Loop(k) => next \in Tops \cup {"ended"}

\* The status a step leaves a peer other than its own
StatusOK(p, st) ==
  /\ st \in [Peers -> Statuses]
  /\ \A q \in Peers : q # p /\ st[q] = "VERIFIED" => status[q] = "VERIFIED"

\* The frame of a coroutine that goes on
LEMMA ResumesFrames ==
  ASSUME TaskOK, NEW x \in TaskIds, NEW p \in Peers, NEW next, Turn(x, p, next),
         NEW lk, Resumes(x, next, lk)
  PROVE  /\ OnlyFrame(x)
         /\ \A k \in Conns : x = Reg(k) =>
              /\ task'[x].at = "ended" /\ task'[x].peer = PeerOf[k]
              /\ task'[Loop(k)].at = "created"
         /\ \A k \in Conns : x = Loop(k) =>
              \/ /\ next \in Tops /\ GoesOn(x, lk)
                 /\ task'[x].at = "recv" /\ task[x].conn # None
                 /\ task'[x].conn = task[x].conn /\ task'[x].peer = task[x].peer
              \/ /\ ~(next \in Tops /\ GoesOn(x, lk)) /\ task'[x].at = "ended"
                 /\ task'[x].conn = None /\ task'[x].peer = PeerOf[k]
         /\ task'[x].at # "sending"
PROOF
  <1>1. task \in [TaskIds -> Frame] /\ FrameOK(x, task[x])
    BY DEF TaskOK
  <1>2. \A k \in Conns : x = Reg(k) \/ x = Loop(k) =>
          LET e == Settled(x, "ended") IN
          e.at = "ended" /\ e.conn = None /\ e.peer = PeerOf[k]
    BY Names DEF Settled, NewFrame
  <1>3. CASE next = "spawn"
    <2>1. PICK k \in Conns : x = Reg(k)
      BY <1>3 DEF Turn, Target, Place, IsReg
    <2>2. x[2] = k /\ Loop(k) \in TaskIds /\ Loop(k) # x
      BY <2>1, Names
    <2>3. task' = SpawnLoop(k)
      BY <1>3, <2>2 DEF Resumes, Tops
    <2> DEFINE e == Settled(x, "ended")
               g == [task[Loop(k)] EXCEPT !.at = "created"]
    <2>4. task' = [task EXCEPT ![x] = e, ![Loop(k)].at = "created"]
      BY <2>1, <2>3 DEF SpawnLoop
    <2>5. /\ task'[x] = e /\ task'[Loop(k)] = g
          /\ \A y \in TaskIds : y # x /\ y # Loop(k) => task'[y] = task[y]
      <3> HIDE DEF e
      <3> QED
        BY <1>1, <2>2, <2>4
    <2>6. g.at = "created"
      BY <1>1, <2>2 DEF Frame
    <2> HIDE DEF g
    <2>7. OnlyFrame(x)
      BY <2>1, <2>5 DEF OnlyFrame, g
    <2>8. \A j \in Conns : (x = Reg(j) => j = k) /\ x # Loop(j)
      BY <2>1, Names
    <2> QED
      BY <1>2, <2>1, <2>5, <2>6, <2>7, <2>8
  <1>4. CASE next # "spawn"
    <2> DEFINE point == IF next \in Tops
                        THEN IF GoesOn(x, lk) THEN "recv" ELSE "ended" ELSE next
    <2>1. task' = [task EXCEPT ![x] = Settled(x, point)]
      BY <1>4 DEF Resumes, Tops
    <2>2. point # "sending"
      BY DEF Turn, Target, Place, Tops
    <2>3. \A k \in Conns : x # Reg(k)
      BY <1>4 DEF Turn
    <2>4. \A k \in Conns : x = Loop(k) => point \in {"recv", "ended"}
      BY DEF Turn
    <2>5. point = "recv" => next \in Tops /\ GoesOn(x, lk) /\ task[x].conn # None
      BY DEF Turn, Target, Place
    <2>6. point = "ended" /\ IsLoop(x) => ~(next \in Tops /\ GoesOn(x, lk))
      BY DEF Tops
    <2>7. Settled(x, point).at = point
      <3>1. /\ point \in Points /\ ~(point \in {"sending", "marking"})
            /\ point = "idle" => x \in Singles
            /\ point = "pong" => task[x].peer \in Peers
        BY DEF Turn, Target, Place, Points, Tops
      <3> HIDE DEF point
      <3> QED
        BY <2>5, <3>1, SettledOK
    <2> HIDE DEF point
    <2>8. task'[x] = Settled(x, point) /\ \A y \in TaskIds : y # x => task'[y] = task[y]
      BY <1>1, <2>1
    <2>9. point = "recv" => /\ Settled(x, point).conn = task[x].conn
                            /\ Settled(x, point).peer = task[x].peer
      BY <1>1 DEF Settled, Frame
    <2>10. OnlyFrame(x)
      BY <2>8 DEF OnlyFrame
    <2> QED
      BY <1>2, <2>2, <2>3, <2>4, <2>5, <2>6, <2>7, <2>8, <2>9, <2>10 DEF IsLoop
  <1> QED
    BY <1>3, <1>4

\* A coroutine that goes on leaves its own frame and that of its loop in order.
LEMMA ResumesUp ==
  ASSUME Core, Core', Attended, NEW x \in TaskIds, NEW p \in Peers,
         NEW next, Turn(x, p, next), NEW lk, Resumes(x, next, lk),
         link' = lk, Steady(x, lk), StatusOK(p, status'),
         table' = table \/ table' = [table EXCEPT ![p] = None],
         Watched(p)', Awaited(p)'
  PROVE  Attended'
PROOF
  <1>1. TaskOK /\ TableOK /\ Tidy
    BY DEF Core, Attended
  <1>2. /\ OnlyFrame(x) /\ task'[x].at # "sending"
        /\ \A k \in Conns : x = Reg(k) =>
              task'[x].at = "ended" /\ task'[x].peer = PeerOf[k]
        /\ \A k \in Conns : x = Loop(k) =>
              \/ /\ task'[x].at = "recv" /\ task[x].conn # None
                 /\ task'[x].conn = task[x].conn /\ task'[x].peer = task[x].peer
              \/ /\ task'[x].at = "ended"
                 /\ task'[x].conn = None /\ task'[x].peer = PeerOf[k]
    BY <1>1, ResumesFrames
  <1>3. ASSUME NEW k \in Conns, x = Reg(k) PROVE RegFrame(k)'
    <2>1. ~FreshIn(link, k)
      BY <1>1, <1>3 DEF Turn, Tidy, RegFrame, FreshIn
    <2>2. ~FreshIn(link', k)
      BY <2>1 DEF Steady
    <2> QED
      BY <1>2, <1>3, <2>2 DEF RegFrame, FreshIn
  <1>4. ASSUME NEW k \in Conns, x = Loop(k) PROVE LoopFrame(k)'
    <2>1. LoopFrame(k) /\ task[x] \in Frame
      BY <1>1, <1>4 DEF Tidy, TaskOK
    <2>2. task[x].conn # None => ~FreshIn(link', task[x].conn)
      BY <1>4, <2>1 DEF LoopFrame, Steady, Frame
    <2> QED
      BY <1>2, <1>4, <2>1, <2>2 DEF LoopFrame
  <1>5. \A q \in Peers : q # p => /\ table'[q] = table[q]
                                  /\ status'[q] = "VERIFIED" => status[q] = "VERIFIED"
    BY <1>1 DEF TableOK, StatusOK
  <1>6. table'[p] # None => ~FreshIn(link', table'[p]) /\ table'[p] = table[p]
    <2>1. table'[p] # None => table'[p] = table[p] /\ table[p] \in Conns
      BY <1>1 DEF TableOK
    <2>2. table'[p] # None => ~FreshIn(link, table[p])
      BY <1>1, <2>1 DEF Tidy
    <2> QED
      BY <2>1, <2>2 DEF Steady
  <1> QED
    BY <1>2, <1>3, <1>4, <1>5, <1>6, LocalStep DEF Turn

\* What a failed send or receive leaves of the connections
LinkOK(lk) ==
  /\ lk \in [Conns -> LinkStates]
  /\ \A k \in Conns : /\ FreshIn(link, k) => lk[k] = link[k]
                      /\ ~FreshIn(link, k) => ~FreshIn(lk, k)

\* _handle_disconnection leaves the peer without a connection, and marked or
\* about to be.
LEMMA DisconnectsUp ==
  ASSUME Core, Core', Attended, NEW x \in TaskIds, NEW p \in Peers,
         NEW next, Turn(x, p, next), NEW st, StatusOK(p, st), NEW lk, LinkOK(lk),
         Disconnects(x, p, next, st, lk)
  PROVE  Attended'
PROOF
  <1> DEFINE c == table[p]
             waits == c # None /\ ~Flagged(lk[c])
  <1>1. TaskOK /\ TableOK /\ Tidy /\ task \in [TaskIds -> Frame] /\ FrameOK(x, task[x])
    BY DEF Core, Attended, TaskOK
  <1>2. table' = [table EXCEPT ![p] = None] /\ table'[p] = None
    BY <1>1 DEF Disconnects, TableOK
  <1>3. Watched(p)'
    BY <1>2 DEF Watched
  <1>4. CASE waits
    <2>1. /\ link' = [lk EXCEPT ![c] = "closed"] /\ status' = st
          /\ task' = [task EXCEPT ![x].at = "marking", ![x].peer = p,
                                  ![x].out = None, ![x].next = next]
      BY <1>4 DEF Disconnects
    <2>2. /\ task'[x].at = "marking" /\ task'[x].peer = p /\ task'[x].next = next
          /\ task'[x].conn = task[x].conn
          /\ \A y \in TaskIds : y # x => task'[y] = task[y]
      BY <1>1, <2>1 DEF Frame
    <2>3. OnlyFrame(x)
      BY <2>2 DEF OnlyFrame
    <2>4. c \in Conns /\ ~FreshIn(link, c)
      BY <1>1, <1>4 DEF TableOK, Tidy
    <2>5. Steady(x, link')
      BY <2>1, <2>4 DEF Steady, LinkOK, FreshIn
    <2>6. Awaited(p)'
      BY <2>2 DEF Awaited, Pending, At
    <2>7. ASSUME NEW k \in Conns, x = Reg(k) PROVE RegFrame(k)'
      <3>1. RegFrame(k) /\ task[x].at \in {"sending", "marking"} /\ Loop(k) \in TaskIds /\ Loop(k) # x
        BY <1>1, <2>7, Names DEF Turn, Tidy
      <3>2. task'[Loop(k)].at = "none"
        BY <2>2, <2>7, <3>1 DEF RegFrame
      <3>3. ~FreshIn(link', k)
        BY <2>5, <2>7, <3>1 DEF Steady, RegFrame
      <3>4. p = PeerOf[k]
        BY <2>7 DEF Turn, Acting
      <3> QED
        BY <2>2, <2>7, <3>2, <3>3, <3>4 DEF RegFrame
    <2>8. ASSUME NEW k \in Conns, x = Loop(k) PROVE LoopFrame(k)'
      <3>1. LoopFrame(k) /\ p = PeerOf[k] /\ next \in Tops \cup {"ended"}
        BY <1>1, <2>8 DEF Turn, Acting, Tidy
      <3>2. task[x].conn \in Conns \cup {None}
        BY <1>1 DEF Frame
      <3>3. task[x].conn # None => ~FreshIn(link', task[x].conn)
        BY <2>5, <2>8, <3>1, <3>2 DEF LoopFrame, Steady
      <3> QED
        BY <1>2, <2>2, <2>8, <3>1, <3>3 DEF LoopFrame
    <2>9. \A q \in Peers : q # p => /\ table'[q] = table[q]
                                    /\ status'[q] = "VERIFIED" => status[q] = "VERIFIED"
      BY <1>1, <1>2, <2>1 DEF TableOK, StatusOK
    <2> QED
      BY <1>2, <1>3, <2>2, <2>3, <2>5, <2>6, <2>7, <2>8, <2>9, LocalStep DEF Turn
  <1>5. CASE ~waits
    <2>1. link' = lk /\ status' = Marked(st, p) /\ Resumes(x, next, lk)
      BY <1>5 DEF Disconnects
    <2>2. Steady(x, lk)
      BY DEF LinkOK, Steady
    <2>3. Awaited(p)'
      BY <2>1 DEF Awaited, Marked, StatusOK
    <2>4. StatusOK(p, status')
      BY <2>1 DEF StatusOK, Marked, Statuses
    <2> QED
      BY <1>2, <1>3, <2>1, <2>2, <2>3, <2>4, ResumesUp
  <1> QED
    BY <1>4, <1>5

\* A status a coroutine may write as it goes on: a peer is verified only by
\* its receive loop, and not by one that has just marked it.
WritesOK(x, p, st) ==
  /\ StatusOK(p, st)
  /\ At(x, "marking") => st[p] # "VERIFIED"
  /\ ~IsLoop(x) /\ st[p] = "VERIFIED" => status[p] = "VERIFIED"

\* A receive loop that goes on reads on, unless it has been disconnected.
ReadsOn(x, next) ==
  IsLoop(x) => \/ task[x].at \in {"recv", "sending"} /\ next \in Tops
               \/ At(x, "marking")

\* Readers of a registered connection stay, but for x itself.
LEMMA OthersRead ==
  ASSUME Core, Attended, NEW x \in TaskIds, NEW p \in Peers, Acting(x, p), OnlyFrame(x),
         table[p] # None
  PROVE  \/ task'[Reg(table[p])].at # "ended"
         \/ x = Reg(table[p])
         \/ \E k \in Conns : PeerOf[k] = p /\ x # Loop(k)
                             /\ (task'[Loop(k)].at = "created"
                                 \/ (task'[Loop(k)].at \in {"recv", "sending", "marking"}
                                     /\ task'[Loop(k)].conn = table[p]))
         \/ \E k \in Conns : PeerOf[k] = p /\ x = Loop(k) /\ Reads(x, table[p])
PROOF
  <1>1. TableOK /\ task \in [TaskIds -> Frame] /\ Watched(p)
    BY DEF Core, TaskOK, Attended
  <1>2. table[p] \in Conns /\ Reg(table[p]) \in TaskIds
    BY <1>1, Names DEF TableOK
  <1>3. CASE task[Reg(table[p])].at # "ended"
    <2>1. x = Reg(table[p]) \/ task'[Reg(table[p])] = task[Reg(table[p])]
      BY <1>2, Names DEF OnlyFrame
    <2> QED
      BY <1>3, <2>1
  <1>4. ASSUME NEW k \in Conns, PeerOf[k] = p, Reads(Loop(k), table[p]), x # Loop(k)
        PROVE  \/ task'[Loop(k)].at = "created"
               \/ (task'[Loop(k)].at \in {"recv", "sending", "marking"}
                   /\ task'[Loop(k)].conn = table[p])
    <2>1. Loop(k) \in TaskIds /\ task[Loop(k)] \in Frame
      BY <1>1, Names
    <2>2. task'[Loop(k)] = task[Loop(k)] \/ task'[Loop(k)].at = "created"
      BY <1>4, <2>1 DEF OnlyFrame, Frame
    <2> QED
      BY <1>4, <2>2 DEF Reads, At
  <1> QED
    BY <1>1, <1>3, <1>4 DEF Watched

\* So do the coroutines a peer without a connection is waiting for.
LEMMA OthersPend ==
  ASSUME Attended, NEW x \in TaskIds, NEW p \in Peers, NEW next, Turn(x, p, next),
         OnlyFrame(x), status[p] = "VERIFIED", table[p] = None, ~Pending(x, p)
  PROVE  \E y \in TaskIds : y # x /\ Pending(y, p) /\ task'[y] = task[y]
PROOF
  <1>1. PICK y \in TaskIds : Pending(y, p)
    BY DEF Attended, Awaited
  <1>2. y # x
    BY <1>1
  <1>3. ASSUME NEW k \in Conns, x = Reg(k) PROVE y # Loop(k)
    <2>1. task[Loop(k)].at = "none"
      BY <1>3 DEF Turn, Attended, Tidy, RegFrame
    <2> QED
      BY <1>1, <2>1 DEF Pending, At
  <1>4. task'[y] = task[y]
    BY <1>2, <1>3 DEF OnlyFrame
  <1> QED
    BY <1>1, <1>2, <1>4

\* A send or disconnection that is over leaves a reader to a connection, and
\* a peer without one to somebody else or to its own loop.
LEMMA ReturnsUp ==
  ASSUME Core, Core', Attended, NEW x \in TaskIds, NEW p \in Peers,
         NEW next, Turn(x, p, next), ReadsOn(x, next),
         NEW st, WritesOK(x, p, st), Returns(x, next, st)
  PROVE  Attended'
PROOF
  <1>1. TaskOK /\ TableOK /\ Tidy /\ link \in [Conns -> LinkStates]
    BY DEF Core, Attended, TableOK
  <1>2. CASE next \in Tops /\ ~GoesOn(x, link)
    <2>1. PICK k \in Conns : x = Loop(k)
      BY <1>2 DEF Turn, Target, Place, IsLoop
    <2>2. x[2] = k /\ PeerOf[k] = p
      BY <2>1, Names DEF Turn, Acting
    <2>3. Disconnects(x, p, "ended", st, link)
      BY <1>2, <2>2 DEF Returns
    <2>4. Turn(x, p, "ended")
      <3>1. ~IsReg(x) /\ IsLoop(x)
        BY <2>1, Names DEF IsReg, IsLoop
      <3> QED
        BY <3>1 DEF Turn, Target, Place, Points, Tops, IsReg
    <2>5. LinkOK(link)
      BY <1>1 DEF LinkOK
    <2> QED
      BY <2>3, <2>4, <2>5, DisconnectsUp DEF WritesOK
  <1>3. CASE ~(next \in Tops /\ ~GoesOn(x, link))
    <2>1. status' = st /\ table' = table /\ link' = link /\ Resumes(x, next, link)
      BY <1>3 DEF Returns
    <2>2. /\ OnlyFrame(x)
          /\ \A k \in Conns : x = Reg(k) => task'[Loop(k)].at = "created"
          /\ \A k \in Conns : x = Loop(k) =>
                \/ /\ next \in Tops /\ task'[x].at = "recv"
                   /\ task'[x].conn = task[x].conn /\ task'[x].peer = task[x].peer
                \/ ~(next \in Tops)
      BY <1>1, <1>3, <2>1, ResumesFrames
    <2>3. Watched(p)'
      <3> SUFFICES ASSUME table[p] # None
                   PROVE  \/ task'[Reg(table[p])].at # "ended"
                          \/ \E k \in Conns : PeerOf[k] = p /\ Reads(Loop(k), table[p])'
        BY <2>1 DEF Watched
      <3>1. table[p] \in Conns /\ PeerOf[table[p]] = p
        BY <1>1 DEF TableOK
      <3>2. CASE x = Reg(table[p])
        BY <2>2, <3>1, <3>2 DEF Reads, At
      <3>3. ASSUME NEW k \in Conns, PeerOf[k] = p, x = Loop(k), Reads(x, table[p])
            PROVE  Reads(Loop(k), table[p])'
        <4>1. LoopFrame(k)
          BY <1>1 DEF Tidy
        <4>2. task[x].at \in {"recv", "sending"} /\ next \in Tops /\ task[x].conn = table[p]
          BY <3>3, <4>1 DEF Reads, At, LoopFrame, ReadsOn, IsLoop
        <4> QED
          BY <2>1, <2>2, <3>3, <4>2 DEF Reads, At
      <3>4. ASSUME NEW k \in Conns, PeerOf[k] = p,
                   \/ task'[Loop(k)].at = "created"
                   \/ (task'[Loop(k)].at \in {"recv", "sending", "marking"}
                       /\ task'[Loop(k)].conn = table[p])
            PROVE  Reads(Loop(k), table[p])'
        BY <2>1, <3>4 DEF Reads, At
      <3> QED
        BY <2>2, <3>2, <3>3, <3>4, OthersRead DEF Turn
    <2>4. Awaited(p)'
      <3> SUFFICES ASSUME st[p] = "VERIFIED", table[p] = None
                   PROVE  \E y \in TaskIds : Pending(y, p)'
        BY <2>1 DEF Awaited
      <3>1. ~At(x, "marking")
        BY DEF WritesOK
      <3>2. CASE IsLoop(x)
        <4>1. PICK k \in Conns : x = Loop(k)
          BY <3>2 DEF IsLoop
        <4>2. next \in Tops /\ task[x].peer = p
          BY <1>1, <3>1, <3>2, <4>1 DEF ReadsOn, Tidy, LoopFrame, Turn, Acting
        <4>3. task'[x].at = "recv" /\ task'[x].peer = p /\ x[1] = "loop"
          BY <2>2, <4>1, <4>2 DEF Loop
        <4> QED
          BY <4>3 DEF Pending
      <3>3. CASE ~IsLoop(x)
        <4>1. status[p] = "VERIFIED" /\ ~Pending(x, p)
          <5>1. x[1] # "loop"
            BY <3>3 DEF TaskIds, IsLoop, Loop, Singles, Heartbeat, Caller
          <5> QED
            BY <3>1, <3>3, <5>1 DEF WritesOK, Pending
        <4>2. \E y \in TaskIds : y # x /\ Pending(y, p) /\ task'[y] = task[y]
          BY <2>2, <4>1, OthersPend
        <4> QED
          BY <4>2 DEF Pending, At
      <3> QED
        BY <3>2, <3>3
    <2>5. Steady(x, link)
      BY DEF Steady
    <2> QED
      BY <2>1, <2>3, <2>4, <2>5, ResumesUp DEF WritesOK
  <1> QED
    BY <1>2, <1>3

\* So does send_to: it waits on the registered connection, or returns.
LEMMA SendsUp ==
  ASSUME Core, Core', Attended, NEW x \in TaskIds, NEW p \in Peers,
         NEW next, Turn(x, p, next), ReadsOn(x, next), ~IsReg(x),
         IsLoop(x) => next \in Tops,
         NEW st, WritesOK(x, p, st), Sends(x, p, next, st)
  PROVE  Attended'
PROOF
  <1> DEFINE c == table[p]
  <1>1. TaskOK /\ TableOK /\ Tidy /\ task \in [TaskIds -> Frame] /\ FrameOK(x, task[x])
    BY DEF Core, Attended, TaskOK
  <1>2. CASE c # None /\ Alive(link[c])
    <2>1. /\ task' = [task EXCEPT ![x].at = "sending", ![x].peer = p,
                                  ![x].out = c, ![x].next = next]
          /\ status' = st /\ UNCHANGED <<table, link>>
      BY <1>2 DEF Sends
    <2>2. /\ task'[x].at = "sending" /\ task'[x].peer = p /\ task'[x].next = next
          /\ task'[x].out = c /\ task'[x].conn = task[x].conn
          /\ \A y \in TaskIds : y # x => task'[y] = task[y]
      BY <1>1, <2>1 DEF Frame
    <2>3. OnlyFrame(x)
      BY <2>2 DEF OnlyFrame
    <2>4. c \in Conns /\ PeerOf[c] = p /\ ~FreshIn(link, c)
      BY <1>1, <1>2 DEF TableOK, Tidy
    <2>5. Awaited(p)'
      BY <1>2, <2>1 DEF Awaited
    <2>6. Watched(p)'
      <3>1. x # Reg(c)
        BY <2>4 DEF IsReg
      <3>2. ASSUME NEW k \in Conns, PeerOf[k] = p, x = Loop(k), Reads(x, c)
            PROVE  Reads(Loop(k), c)'
        <4>1. task[x].conn = c
          BY <3>2 DEF Reads, At, ReadsOn, IsLoop
        <4> QED
          BY <2>1, <2>2, <3>2, <4>1 DEF Reads, At
      <3>3. ASSUME NEW k \in Conns, PeerOf[k] = p,
                   \/ task'[Loop(k)].at = "created"
                   \/ (task'[Loop(k)].at \in {"recv", "sending", "marking"}
                       /\ task'[Loop(k)].conn = c)
            PROVE  Reads(Loop(k), c)'
        BY <2>1, <3>3 DEF Reads, At
      <3>4. \/ task'[Reg(c)].at # "ended"
            \/ \E k \in Conns : PeerOf[k] = p /\ Reads(Loop(k), c)'
        BY <1>2, <2>3, <3>1, <3>2, <3>3, OthersRead DEF Turn
      <3> QED
        BY <2>1, <3>4 DEF Watched
    <2>7. ASSUME NEW k \in Conns, x = Loop(k) PROVE LoopFrame(k)'
      <3>1. LoopFrame(k) /\ PeerOf[k] = p /\ next \in Tops /\ task[x].conn # None
        BY <1>1, <2>7 DEF Tidy, Turn, Acting, IsLoop, Target, Place
      <3> QED
        BY <2>1, <2>2, <2>7, <3>1 DEF LoopFrame
    <2>8. \A k \in Conns : x # Reg(k)
      BY DEF IsReg
    <2>9. Steady(x, link')
      BY <2>1 DEF Steady
    <2>10. \A q \in Peers : q # p => /\ table'[q] = table[q]
                                     /\ status'[q] = "VERIFIED" => status[q] = "VERIFIED"
      BY <2>1 DEF WritesOK, StatusOK
    <2>11. /\ ~FreshIn(link', task'[x].out)
           /\ ~FreshIn(link', table'[p]) /\ table'[p] = table[p]
      BY <2>1, <2>2, <2>4
    <2> QED
      BY <2>3, <2>5, <2>6, <2>7, <2>8, <2>9, <2>10, <2>11, LocalStep DEF Turn
  <1>3. CASE ~(c # None /\ Alive(link[c]))
    BY <1>3, ReturnsUp DEF Sends
  <1> QED
    BY <1>2, <1>3

\* What a coroutine that waits may do next
LEMMA WaitingTurn ==
  ASSUME Core, Attended, NEW x \in TaskIds, task[x].at \in {"sending", "marking"}
  PROVE  /\ task[x].peer \in Peers
         /\ Turn(x, task[x].peer, task[x].next) /\ ReadsOn(x, task[x].next)
         /\ \A k \in Conns : x = Loop(k) => task[x].peer = PeerOf[k]
         /\ IsLoop(x) /\ At(x, "sending") => task[x].next \in Tops
PROOF
  <1>1. TaskOK /\ Tidy
    BY DEF Core, Attended
  <1>2. /\ Target(x, task[x].next) /\ task[x].peer \in Peers
    BY <1>1, NextTarget
  <1>3. \A k \in Conns : x = Reg(k) => task[x].peer = PeerOf[k] /\ task[x].next = "spawn"
    BY <1>1, <1>2 DEF Tidy, RegFrame, Target, Place, IsReg
  <1>4. \A k \in Conns : x = Loop(k) => /\ task[x].peer = PeerOf[k]
                                        /\ task[x].next \in Tops \cup {"ended"}
                                        /\ task[x].at = "sending" => task[x].next \in Tops
    BY <1>1 DEF Tidy, LoopFrame
  <1> QED
    BY <1>2, <1>3, <1>4 DEF Turn, Acting, ReadsOn, IsLoop, At

LEMMA ContinuesUp ==
  ASSUME Core, Core', Attended, NEW x \in TaskIds, task[x].at \in {"sending", "marking"},
         NEW st, WritesOK(x, task[x].peer, st), Continues(x, task[x].next, st)
  PROVE  Attended'
PROOF
  <1>1. /\ task[x].peer \in Peers
        /\ Turn(x, task[x].peer, task[x].next) /\ ReadsOn(x, task[x].next)
    BY WaitingTurn
  <1>2. CASE task[x].next = "list"
    <2>1. PICK k \in Conns : x = Loop(k)
      BY <1>1, <1>2 DEF Turn, Target, Place, Tops, IsLoop
    <2>2. ~IsReg(x) /\ x[2] = k /\ PeerOf[k] = task[x].peer
      BY <2>1, Names, WaitingTurn DEF IsReg
    <2>3. Turn(x, task[x].peer, "top") /\ ReadsOn(x, "top")
      BY <1>1, <1>2, <2>2 DEF Turn, Target, Place, Points, Tops, ReadsOn, IsReg
    <2>4. Sends(x, task[x].peer, "top", st)
      BY <1>2, <2>2 DEF Continues
    <2> QED
      BY <1>1, <2>2, <2>3, <2>4, SendsUp DEF Tops
  <1>3. CASE task[x].next # "list"
    BY <1>1, <1>3, ReturnsUp DEF Continues
  <1> QED
    BY <1>2, <1>3

LEMMA FailedUp ==
  ASSUME Core, NEW k \in Conns, ~FreshIn(link, k)
  PROVE  LinkOK(Failed(k))
PROOF
  BY DEF Failed, LinkOK, FreshIn, Core, TableOK, LinkStates

LEMMA StatusesUp ==
  ASSUME Core, NEW p \in Peers
  PROVE  /\ StatusOK(p, status) /\ StatusOK(p, Marked(status, p))
         /\ Marked(status, p)[p] # "VERIFIED"
         /\ StatusOK(p, [status EXCEPT ![p] = "BANNED"])
         /\ \A s \in {"CONNECTED", "VERIFIED"} : StatusOK(p, Updated(p, s))
PROOF
  BY DEF Core, TableOK, StatusOK, Marked, Statuses, Updated

\* A send or a disconnection that ends
LEMMA ResumingUp ==
  ASSUME Core, Core', Attended, NEW x \in TaskIds, Resuming(x)
  PROVE  Attended'
PROOF
  <1> DEFINE f == task[x]
  <1>1. CASE Mark(x)
    <2>1. f.at = "marking" /\ Continues(x, f.next, Marked(status, f.peer))
      BY <1>1 DEF Mark, At
    <2>2. f.peer \in Peers
      BY <2>1, WaitingTurn
    <2>3. WritesOK(x, f.peer, Marked(status, f.peer))
      BY <2>2, StatusesUp DEF WritesOK
    <2> QED
      BY <2>1, <2>3, ContinuesUp
  <1>2. CASE SendDone(x)
    <2>1. f.at = "sending" /\ Continues(x, f.next, status)
      BY <1>2 DEF SendDone, At
    <2>2. f.peer \in Peers
      BY <2>1, WaitingTurn
    <2>3. WritesOK(x, f.peer, status)
      BY <2>1, <2>2, StatusesUp DEF WritesOK, At
    <2> QED
      BY <2>1, <2>3, ContinuesUp
  <1>3. CASE SendFails(x)
    <2>1. f.at = "sending" /\ f.out \in Conns /\ ~FreshIn(link, f.out)
      BY <1>3 DEF SendFails, At, Core, TaskOK, FrameOK, Frame, Attended, Tidy
    <2>2. /\ f.peer \in Peers /\ Turn(x, f.peer, f.next)
      BY <2>1, WaitingTurn
    <2>3. LinkOK(Failed(f.out)) /\ StatusOK(f.peer, status)
      BY <2>1, <2>2, FailedUp, StatusesUp
    <2>4. CASE x = Heartbeat
      <3>1. Disconnects(x, f.peer, "probe", status, Failed(f.out))
        BY <1>3, <2>4 DEF SendFails
      <3>2. Turn(x, f.peer, "probe")
        BY <2>2, <2>4, Names DEF Turn, Target, Place, Points, Tops, IsReg
      <3> QED
        BY <2>2, <2>3, <3>1, <3>2, DisconnectsUp
    <2>5. CASE x # Heartbeat
      <3>1. Disconnects(x, f.peer, f.next, status, Failed(f.out))
        BY <1>3, <2>5 DEF SendFails
      <3> QED
        BY <2>2, <2>3, <3>1, DisconnectsUp
    <2> QED
      BY <2>4, <2>5
  <1> QED
    BY <1>1, <1>2, <1>3 DEF Resuming

\* A receive loop that starts, or is at the top of its loop
LEMMA LoopTurn ==
  ASSUME Core, Attended, NEW k \in Conns, task[Loop(k)].at \in {"created", "recv"}
  PROVE  /\ Loop(k) \in TaskIds /\ PeerOf[k] \in Peers /\ ~IsReg(Loop(k))
         /\ Turn(Loop(k), PeerOf[k], "ended")
         /\ At(Loop(k), "recv") =>
              /\ \A next \in Tops : Turn(Loop(k), PeerOf[k], next) /\ ReadsOn(Loop(k), next)
              /\ task[Loop(k)].conn \in Conns /\ ~FreshIn(link, task[Loop(k)].conn)
PROOF
  <1>1. Loop(k) \in TaskIds /\ PeerOf[k] \in Peers /\ ~IsReg(Loop(k)) /\ IsLoop(Loop(k))
    BY Names, HostAssumption DEF HostAssumption, IsReg, IsLoop
  <1>2. Acting(Loop(k), PeerOf[k])
    <2>1. \A j \in Conns : Loop(k) = Loop(j) => j = k
      BY Names
    <2>2. \A j \in Conns : Loop(k) # Reg(j)
      BY Names
    <2> QED
      BY <2>1, <2>2 DEF Acting, At
  <1>3. Target(Loop(k), "ended")
    BY <1>1 DEF Target, Place, Points, Tops
  <1>4. Turn(Loop(k), PeerOf[k], "ended")
    BY <1>1, <1>2, <1>3 DEF Turn, IsReg
  <1>5. ASSUME At(Loop(k), "recv")
        PROVE  /\ task[Loop(k)].conn \in Conns /\ ~FreshIn(link, task[Loop(k)].conn)
               /\ \A next \in Tops : Turn(Loop(k), PeerOf[k], next) /\ ReadsOn(Loop(k), next)
    <2>1. LoopFrame(k) /\ task[Loop(k)].conn \in Conns
      BY <1>1, <1>5, ReadingLoop DEF At, Attended, Tidy
    <2>2. task[Loop(k)].conn # None
      BY <2>1, HostAssumption DEF HostAssumption
    <2>3. Target(Loop(k), "top") /\ Target(Loop(k), "list")
      BY <1>5, ReadingLoop DEF At
    <2> QED
      BY <1>1, <1>2, <1>5, <2>1, <2>2, <2>3 DEF LoopFrame, Turn, ReadsOn, Tops, At, IsReg
  <1> QED
    BY <1>1, <1>4, <1>5

LEMMA LoopStartUp ==
  ASSUME Core, Core', Attended, stage = "up", NEW k \in Conns, LoopStart(k)
  PROVE  Attended'
PROOF
  <1> DEFINE x == Loop(k)
             p == PeerOf[k]
             c == table[p]
  <1>1. /\ x \in TaskIds /\ p \in Peers /\ Turn(x, p, "ended") /\ At(x, "created")
        /\ \A j \in Conns : x # Reg(j) /\ (x = Loop(j) => j = k)
    BY LoopTurn, Names DEF LoopStart, At, IsReg
  <1>2. StatusOK(p, status) /\ LinkOK(link) /\ TableOK /\ TaskOK /\ Tidy /\ LoopFrame(k)
    BY <1>1, StatusesUp DEF Core, TableOK, LinkOK, Attended, Tidy
  <1>3. CASE c # None /\ ~Alive(link[c])
    BY <1>1, <1>2, <1>3, DisconnectsUp DEF LoopStart
  <1>4. CASE c = None \/ Alive(link[c])
    <2>1. /\ UNCHANGED <<table, status, link>> /\ OnlyFrame(x)
          /\ IF c = None THEN task'[x] = Settled(x, "ended")
             ELSE task'[x] = [task[x] EXCEPT !.at = "recv", !.conn = c]
      <3>1. task \in [TaskIds -> Frame]
        BY <1>2 DEF TaskOK
      <3>2. CASE c = None
        <4>1. UNCHANGED <<table, status, link>> /\ task' = [task EXCEPT ![x] = Settled(x, "ended")]
          BY <3>2 DEF LoopStart, Goto
        <4> QED
          BY <1>1, <3>1, <3>2, <4>1 DEF OnlyFrame
      <3>3. CASE c # None /\ Alive(link[c])
        <4>1. /\ UNCHANGED <<table, status, link>>
              /\ task' = [task EXCEPT ![x].at = "recv", ![x].conn = c]
          BY <3>3 DEF LoopStart
        <4> QED
          BY <1>1, <3>1, <3>3, <4>1 DEF OnlyFrame
      <3> QED
        BY <1>4, <3>2, <3>3
    <2>2. c # None => c \in Conns /\ ~FreshIn(link, c)
      BY <1>1, <1>2 DEF TableOK, Tidy
    <2>3. CASE c = None
      <3>1. task'[x].at = "ended" /\ task'[x].conn = None /\ task'[x].peer = p
        BY <2>1, <2>3, Names DEF Settled, NewFrame
      <3>2. LoopFrame(k)'
        BY <3>1 DEF LoopFrame
      <3>3. Watched(p)'
        BY <2>1, <2>3 DEF Watched
      <3>4. Awaited(p)'
        <4> SUFFICES ASSUME status[p] = "VERIFIED" PROVE \E y \in TaskIds : Pending(y, p)'
          BY <2>1 DEF Awaited
        <4>1. ~Pending(x, p)
          BY <1>1 DEF Pending, At
        <4> QED
          BY <1>1, <2>1, <2>3, <4>1, OthersPend DEF Pending, At
      <3> QED
        BY <1>1, <2>1, <2>3, <3>1, <3>2, <3>3, <3>4, LocalStep DEF Turn, Steady
    <2>4. CASE c # None
      <3>1. task'[x].at = "recv" /\ task'[x].conn = c /\ task'[x].peer = p
        <4>1. task[x] \in Frame /\ task[x].peer = p
          BY <1>1, <1>2 DEF TaskOK, LoopFrame
        <4> QED
          BY <2>1, <2>4, <4>1 DEF Frame
      <3>2. LoopFrame(k)'
        BY <2>1, <2>2, <2>4, <3>1 DEF LoopFrame
      <3>3. Watched(p)'
        BY <2>1, <3>1 DEF Watched, Reads
      <3>4. Awaited(p)'
        BY <2>1, <2>4 DEF Awaited
      <3>5. ~FreshIn(link', table'[p]) /\ table'[p] = table[p]
        BY <2>1, <2>2, <2>4
      <3> QED
        BY <1>1, <2>1, <3>1, <3>2, <3>3, <3>4, <3>5, LocalStep DEF Turn, Steady
    <2> QED
      BY <2>3, <2>4
  <1> QED
    BY <1>3, <1>4

\* A receive loop that reads a frame, or cannot
LEMMA ServingUp ==
  ASSUME Core, Core', Attended, stage = "up", NEW k \in Conns, Serving(k)
  PROVE  Attended'
PROOF
  <1> DEFINE x == Loop(k)
             p == PeerOf[k]
  <1>1. CASE LoopStart(k)
    BY <1>1, LoopStartUp
  <1>2. ASSUME At(x, "recv")
        PROVE  /\ x \in TaskIds /\ p \in Peers /\ ~IsReg(x) /\ Turn(x, p, "ended")
               /\ Turn(x, p, "top") /\ ReadsOn(x, "top")
               /\ Turn(x, p, "list") /\ ReadsOn(x, "list")
               /\ task[x].conn \in Conns /\ ~FreshIn(link, task[x].conn)
               /\ StatusOK(p, status) /\ WritesOK(x, p, status)
               /\ StatusOK(p, [status EXCEPT ![p] = "BANNED"])
               /\ WritesOK(x, p, Updated(p, "VERIFIED"))
               /\ LinkOK(link)
    <2>1. /\ x \in TaskIds /\ p \in Peers /\ ~IsReg(x) /\ Turn(x, p, "ended")
          /\ \A next \in Tops : Turn(x, p, next) /\ ReadsOn(x, next)
          /\ task[x].conn \in Conns /\ ~FreshIn(link, task[x].conn)
      BY <1>2, LoopTurn DEF At
    <2>2. IsLoop(x) /\ ~At(x, "marking")
      BY <1>2 DEF IsLoop, At
    <2>3. LinkOK(link)
      BY DEF LinkOK, Core, TableOK
    <2>4. /\ StatusOK(p, status) /\ StatusOK(p, [status EXCEPT ![p] = "BANNED"])
          /\ StatusOK(p, Updated(p, "VERIFIED"))
      BY <2>1, StatusesUp
    <2> HIDE DEF x, p
    <2> QED
      BY <2>1, <2>2, <2>3, <2>4 DEF WritesOK, Tops
  <1>3. CASE LoopFails(k)
    <2>1. At(x, "recv") /\ Disconnects(x, p, "ended", status, Failed(task[x].conn))
      BY <1>3 DEF LoopFails
    <2>2. LinkOK(Failed(task[x].conn))
      BY <1>2, <2>1, FailedUp
    <2> HIDE DEF x, p
    <2> QED
      BY <1>2, <2>1, <2>2, DisconnectsUp
  <1>4. CASE LoopBans(k)
    <2>1. At(x, "recv") /\ Disconnects(x, p, "ended", [status EXCEPT ![p] = "BANNED"], link)
      BY <1>4 DEF LoopBans, Frames
    <2> HIDE DEF x, p
    <2> QED
      BY <1>2, <2>1, DisconnectsUp
  <1>5. CASE LoopCard(k)
    <2>1. At(x, "recv") /\ Sends(x, p, "list", Updated(p, "VERIFIED"))
      BY <1>5 DEF LoopCard, Frames
    <2> HIDE DEF x, p
    <2> QED
      BY <1>2, <2>1, SendsUp DEF Tops
  <1>6. CASE LoopAnswers(k)
    <2>1. At(x, "recv") /\ Sends(x, p, "top", status)
      BY <1>6 DEF LoopAnswers, Frames
    <2> HIDE DEF x, p
    <2> QED
      BY <1>2, <2>1, SendsUp DEF Tops
  <1>7. CASE LoopDrops(k)
    <2>1. At(x, "recv") /\ Returns(x, "top", status)
      BY <1>7 DEF LoopDrops, Frames
    <2> HIDE DEF x, p
    <2> QED
      BY <1>2, <2>1, ReturnsUp
  <1>8. CASE LoopGoodbye(k)
    <2>1. At(x, "recv") /\ Disconnects(x, p, "top", status, link)
      BY <1>8 DEF LoopGoodbye, Frames
    <2> HIDE DEF x, p
    <2> QED
      BY <1>2, <2>1, DisconnectsUp
  <1> QED
    BY <1>1, <1>3, <1>4, <1>5, <1>6, <1>7, <1>8 DEF Serving

-----------------------------------------------------------------------------
(* The other steps *)

\* The registration of k, told apart from every other coroutine
LEMMA RegTurn ==
  ASSUME NEW k \in Conns, ~At(Reg(k), "marking")
  PROVE  /\ Reg(k) \in TaskIds /\ PeerOf[k] \in Peers /\ Acting(Reg(k), PeerOf[k])
         /\ \A j \in Conns : Reg(k) # Loop(j) /\ (Reg(k) = Reg(j) => j = k)
         /\ ~IsLoop(Reg(k))
PROOF
  <1>1. Reg(k) \in TaskIds /\ PeerOf[k] \in Peers
    BY Names, HostAssumption DEF HostAssumption
  <1>2. \A j \in Conns : Reg(k) # Loop(j) /\ (Reg(k) = Reg(j) => j = k)
    BY Names
  <1> HIDE DEF Reg
  <1> QED
    BY <1>1, <1>2 DEF Acting, IsLoop

\* A connection that is only being made, or given up, is in nobody's way.
LEMMA MakingUp ==
  ASSUME Core, Core', Attended, NEW k \in Conns, UNCHANGED <<table, status>>,
         \/ /\ task' = [task EXCEPT ![Reg(k)] = Settled(Reg(k), "handshake")]
            /\ link[k] = "unused" /\ link' = [link EXCEPT ![k] = "handshake"]
         \/ /\ task' = [task EXCEPT ![Reg(k)] = Settled(Reg(k), "ended")]
            /\ At(Reg(k), "handshake") /\ link' = [link EXCEPT ![k] = "closed"]
  PROVE  Attended'
PROOF
  <1> DEFINE x == Reg(k)
             p == PeerOf[k]
  <1>1. TableOK /\ TaskOK /\ Tidy /\ RegFrame(k) /\ task \in [TaskIds -> Frame]
    BY DEF Core, Attended, Tidy, TaskOK
  <1>2. FreshIn(link, k) /\ (At(x, "none") \/ At(x, "handshake"))
    BY <1>1 DEF RegFrame, FreshIn, At
  <1>3. /\ x \in TaskIds /\ p \in Peers /\ Acting(x, p)
        /\ \A j \in Conns : x # Loop(j) /\ (x = Reg(j) => j = k)
        /\ ~IsLoop(x)
    BY <1>2, RegTurn DEF At
  <1>5. /\ Settled(x, "handshake").at = "handshake" /\ Settled(x, "handshake").peer = p
        /\ Settled(x, "ended").at = "ended" /\ Settled(x, "ended").peer = p
    <2>1. Settled(x, "handshake").at = "handshake" /\ Settled(x, "ended").at = "ended"
      BY <1>3, <1>1, SettledOK DEF Points
    <2>2. Settled(x, "ended").peer = p
      BY <1>3, Names DEF Settled, NewFrame
    <2>3. Settled(x, "handshake").peer = p
      BY <1>3, <1>1 DEF Settled, Frame, RegFrame
    <2> QED
      BY <2>1, <2>2, <2>3
  <1>6. /\ \A y \in TaskIds : y # x => task'[y] = task[y]
        /\ task'[x].at \in {"handshake", "ended"} /\ task'[x].peer = p
        /\ link' \in [Conns -> LinkStates]
        /\ \A j \in Conns : j # k => link'[j] = link[j]
        /\ IF task'[x].at = "handshake" THEN link[k] = "unused" /\ link'[k] = "handshake"
           ELSE link'[k] = "closed"
    <2>1. \A y \in TaskIds : y # x => task'[y] = task[y]
      BY <1>1
    <2>2. link \in [Conns -> LinkStates]
      BY <1>1 DEF TableOK
    <2>3. CASE /\ task' = [task EXCEPT ![Reg(k)] = Settled(Reg(k), "handshake")]
               /\ link[k] = "unused" /\ link' = [link EXCEPT ![k] = "handshake"]
      <3>1. task'[x] = Settled(x, "handshake")
        BY <1>3, <1>1, <2>3
      <3>2. /\ link' \in [Conns -> LinkStates] /\ link'[k] = "handshake"
            /\ \A j \in Conns : j # k => link'[j] = link[j]
        BY <2>2, <2>3 DEF LinkStates
      <3> QED
        BY <1>5, <2>1, <2>3, <3>1, <3>2
    <2>4. CASE /\ task' = [task EXCEPT ![Reg(k)] = Settled(Reg(k), "ended")]
               /\ At(Reg(k), "handshake") /\ link' = [link EXCEPT ![k] = "closed"]
      <3>1. task'[x] = Settled(x, "ended")
        BY <1>3, <1>1, <2>4
      <3>2. /\ link' \in [Conns -> LinkStates] /\ link'[k] = "closed"
            /\ \A j \in Conns : j # k => link'[j] = link[j]
        BY <2>2, <2>4 DEF LinkStates
      <3> QED
        BY <1>5, <2>1, <3>1, <3>2
    <2> QED
      BY <2>3, <2>4
  <1>7. OnlyFrame(x)
    BY <1>6 DEF OnlyFrame
  <1>8. Steady(x, link')
    BY <1>6 DEF Steady, FreshIn
  <1>9. RegFrame(k)'
    <2>1. task'[Loop(k)].at = "none"
      <3>1. task[Loop(k)].at = "none"
        BY <1>1, <1>2 DEF RegFrame, At
      <3>2. Loop(k) \in TaskIds /\ Loop(k) # x
        BY <1>3, Names
      <3> QED
        BY <1>6, <3>1, <3>2
    <2> HIDE DEF x
    <2> QED
      BY <1>6, <2>1 DEF RegFrame, FreshIn, x
  <1>10. table[p] # None => table[p] \in Conns /\ ~FreshIn(link, table[p]) /\ table[p] # k
    BY <1>1, <1>2, <1>3 DEF TableOK, Tidy
  <1>11. Watched(p)'
    <2> SUFFICES ASSUME table[p] # None
                 PROVE  \/ task'[Reg(table[p])].at # "ended"
                        \/ \E j \in Conns : PeerOf[j] = p /\ Reads(Loop(j), table[p])'
      BY DEF Watched
    <2>1. CASE task[Reg(table[p])].at # "ended"
      <3>1. Reg(table[p]) # x /\ Reg(table[p]) \in TaskIds
        BY <1>3, <1>10, Names
      <3> QED
        BY <1>6, <2>1, <3>1
    <2>2. ASSUME NEW j \in Conns, PeerOf[j] = p, Reads(Loop(j), table[p])
          PROVE  Reads(Loop(j), table[p])'
      <3>1. task'[Loop(j)] = task[Loop(j)]
        BY <1>3, <1>6, Names
      <3> QED
        BY <2>2, <3>1 DEF Reads, At
    <2>3. \/ task[Reg(table[p])].at # "ended"
          \/ \E j \in Conns : PeerOf[j] = p /\ Reads(Loop(j), table[p])
      BY <1>3 DEF Attended, Watched
    <2> QED
      BY <2>1, <2>2, <2>3
  <1>12. Awaited(p)'
    <2> SUFFICES ASSUME status[p] = "VERIFIED", table[p] = None
                 PROVE  \E y \in TaskIds : Pending(y, p)'
      BY DEF Awaited
    <2>1. PICK y \in TaskIds : Pending(y, p)
      BY <1>3 DEF Attended, Awaited
    <2>2. y # x
      <3>1. x[1] # "loop"
        BY DEF Reg
      <3> QED
        BY <1>2, <2>1, <3>1 DEF Pending, At
    <2> QED
      BY <1>6, <2>1, <2>2 DEF Pending, At
  <1>13. table'[p] # None => ~FreshIn(link', table'[p]) /\ table'[p] = table[p]
    BY <1>6, <1>10 DEF FreshIn
  <1>14. \A j \in Conns : (x = Reg(j) => RegFrame(j)') /\ (x = Loop(j) => LoopFrame(j)')
    BY <1>3, <1>9
  <1>15. task'[x].at # "sending"
    BY <1>6
  <1> HIDE DEF x, p
  <1> QED
    BY <1>3, <1>7, <1>8, <1>11, <1>12, <1>13, <1>14, <1>15, LocalStep

\* The connection that is registered has the coroutine that registers it, and
\* no receive loop had anything to do with it before.
LEMMA RegisterUp ==
  ASSUME Core, Core', Attended, NEW k \in Conns, Register(k)
  PROVE  Attended'
PROOF
  <1> DEFINE x == Reg(k)
             p == PeerOf[k]
  <1>1. TableOK /\ TaskOK /\ Tidy /\ RegFrame(k) /\ task \in [TaskIds -> Frame]
    BY DEF Core, Attended, Tidy, TaskOK
  <1>2. At(x, "handshake") /\ FreshIn(link, k)
    BY <1>1 DEF Register, RegFrame, FreshIn, At
  <1>3. /\ x \in TaskIds /\ p \in Peers /\ Acting(x, p)
        /\ \A j \in Conns : x # Loop(j) /\ (x = Reg(j) => j = k)
    BY <1>2, RegTurn DEF At
  <1>4. CASE Duplicate(k)
    BY <1>4, MakingUp DEF Register, Goto
  <1>5. CASE ~Duplicate(k)
    <2>1. /\ link' = [link EXCEPT ![k] = "open"] /\ table' = [table EXCEPT ![p] = k]
          /\ status' = Updated(p, "CONNECTED")
          /\ task' = [task EXCEPT ![x].at = "sending", ![x].out = k, ![x].next = "spawn"]
      BY <1>5 DEF Register
    <2>2. /\ \A y \in TaskIds : y # x => task'[y] = task[y]
          /\ task'[x].at = "sending" /\ task'[x].out = k /\ task'[x].peer = task[x].peer
      BY <1>1, <1>3, <2>1 DEF Frame
    <2>3. OnlyFrame(x)
      BY <2>2 DEF OnlyFrame
    <2>4. link'[k] = "open" /\ \A j \in Conns : j # k => link'[j] = link[j]
      BY <1>1, <2>1 DEF TableOK
    <2>5. Steady(x, link')
      BY <1>2, <2>4 DEF Steady, FreshIn
    <2>6. table'[p] = k /\ \A q \in Peers : q # p => table'[q] = table[q]
      BY <1>1, <1>3, <2>1 DEF TableOK
    <2>7. StatusOK(p, status')
      BY <1>3, <2>1, StatusesUp
    <2>8. RegFrame(k)'
      <3>1. Loop(k) \in TaskIds /\ task'[Loop(k)] = task[Loop(k)]
        BY <1>3, <2>2, Names
      <3> QED
        BY <1>1, <1>2, <2>2, <2>4, <3>1 DEF RegFrame, FreshIn, At
    <2>9. Watched(p)'
      BY <2>2, <2>6 DEF Watched
    <2>10. Awaited(p)'
      BY <2>6, HostAssumption DEF Awaited, HostAssumption
    <2>11. ~FreshIn(link', table'[p]) /\ FreshIn(link, table'[p])
      BY <1>2, <2>4, <2>6 DEF FreshIn
    <2>12. ~FreshIn(link', task'[x].out)
      BY <2>2, <2>4 DEF FreshIn
    <2>13. \A j \in Conns : (x = Reg(j) => RegFrame(j)') /\ (x = Loop(j) => LoopFrame(j)')
      BY <1>3, <2>8
    <2>14. \A q \in Peers : q # p => /\ table'[q] = table[q]
                                     /\ status'[q] = "VERIFIED" => status[q] = "VERIFIED"
      BY <2>6, <2>7 DEF StatusOK
    <2> HIDE DEF x, p
    <2> QED
      BY <1>3, <2>3, <2>5, <2>9, <2>10, <2>11, <2>12, <2>13, <2>14, LocalStep
  <1> QED
    BY <1>4, <1>5

\* A lost connection keeps its reader, which finds out.
LEMMA LoseUp ==
  ASSUME Core, Attended, NEW k \in Conns, Lose(k)
  PROVE  Attended'
PROOF
  <1>1. PICK l \in {"cut", "silent", "reset"} : link' = [link EXCEPT ![k] = l]
    BY DEF Lose
  <1>2. UNCHANGED <<table, status, task>> /\ link[k] = "open" /\ link \in [Conns -> LinkStates]
    BY DEF Lose, Core, TableOK
  <1>3. \A j \in Conns : /\ FreshIn(link', j) <=> FreshIn(link, j)
                         /\ FreshIn(link, j) => link'[j] = link[j]
    BY <1>1, <1>2 DEF FreshIn
  <1>4. TaskOK /\ TableOK /\ Tidy
    BY DEF Core, Attended
  <1>5. \A j \in Conns : RegFrame(j)' /\ LoopFrame(j)'
    <2> SUFFICES ASSUME NEW j \in Conns PROVE RegFrame(j)' /\ LoopFrame(j)'
      OBVIOUS
    <2>1. RegFrame(j) /\ LoopFrame(j) /\ task[Loop(j)].conn \in Conns \cup {None}
      BY <1>4, Names DEF Tidy, TaskOK, Frame
    <2>2. RegFrame(j)'
      BY <1>2, <1>3, <2>1 DEF RegFrame, FreshIn
    <2>3. LoopFrame(j)'
      BY <1>2, <1>3, <2>1 DEF LoopFrame
    <2> QED
      BY <2>2, <2>3
  <1>6. \A x \in TaskIds : task'[x].at = "sending" => ~FreshIn(link', task'[x].out)
    BY <1>2, <1>3, <1>4 DEF Tidy, TaskOK, FrameOK, Frame
  <1>7. \A p \in Peers : table'[p] # None => ~FreshIn(link', table'[p])
    BY <1>2, <1>3, <1>4 DEF Tidy, TableOK
  <1>8. \A p \in Peers : Watched(p)' /\ Awaited(p)'
    BY <1>2 DEF Attended, Watched, Awaited, Pending, Reads, At
  <1> QED
    BY <1>5, <1>6, <1>7, <1>8 DEF Attended, Tidy

\* The heartbeat between two sends, and the bookkeeping of stop()
LEMMA QuietUp ==
  ASSUME Core, Attended, NEW x \in Singles, ~At(x, "marking"),
         task' = task \/ \E f : /\ task' = [task EXCEPT ![x] = f]
                                /\ f.at = "sending" => ~FreshIn(link, f.out),
         UNCHANGED <<table, status, link>>
  PROVE  Attended'
PROOF
  <1>1. task \in [TaskIds -> Frame] /\ Tidy /\ TableOK
    BY DEF Core, TaskOK, Attended
  <1>2. \A y \in TaskIds : y # x => task'[y] = task[y]
    BY <1>1
  <1>3. x \in TaskIds => \/ task'[x] = task[x]
                        \/ (task'[x].at = "sending" => ~FreshIn(link, task'[x].out))
    <2>1. CASE task' = task
      BY <2>1
    <2>2. CASE \E f : /\ task' = [task EXCEPT ![x] = f]
                      /\ f.at = "sending" => ~FreshIn(link, f.out)
      BY <1>1, <2>2
    <2> QED
      BY <2>1, <2>2
  <1>4. \A k \in Conns : /\ Reg(k) \in TaskIds /\ Loop(k) \in TaskIds
                         /\ Reg(k) # x /\ Loop(k) # x
    BY Names
  <1>5. \A k \in Conns : task'[Reg(k)] = task[Reg(k)] /\ task'[Loop(k)] = task[Loop(k)]
    BY <1>2, <1>4
  <1>6. \A k \in Conns : RegFrame(k)' /\ LoopFrame(k)'
    BY <1>1, <1>5 DEF Tidy, RegFrame, LoopFrame
  <1>7. Tidy'
    BY <1>1, <1>2, <1>3, <1>6 DEF Tidy
  <1>8. ASSUME NEW p \in Peers PROVE Watched(p)' /\ Awaited(p)'
    <2>1. Watched(p)'
      BY <1>1, <1>5 DEF TableOK, Attended, Watched, Reads, At
    <2>2. ~Pending(x, p)
      BY DEF Pending, Singles, Heartbeat, Caller
    <2>3. Awaited(p)'
      BY <1>2, <2>2 DEF Attended, Awaited, Pending, At
    <2> QED
      BY <2>1, <2>3
  <1> QED
    BY <1>7, <1>8 DEF Attended

\* What a caller or the heartbeat does next
LEMMA SingleTurn ==
  ASSUME NEW x \in Singles, ~At(x, "marking"), NEW p \in Peers, NEW next, Target(x, next)
  PROVE  x \in TaskIds /\ Turn(x, p, next) /\ ReadsOn(x, next) /\ ~IsReg(x) /\ ~IsLoop(x)
PROOF
  <1>1. \A k \in Conns : x # Reg(k) /\ x # Loop(k)
    BY Names
  <1> QED
    BY <1>1 DEF Turn, Acting, ReadsOn, IsReg, IsLoop, TaskIds

LEMMA BeatingUp ==
  ASSUME Inv, Inv', Attended, Beating PROVE Attended'
PROOF
  <1>1. Core /\ Core' /\ Heartbeat \in Singles
    BY DEF Inv, Singles
  <1>2. ASSUME ~At(Heartbeat, "marking"), NEW point, point # "sending", Goto(Heartbeat, point),
               UNCHANGED <<table, status, link>>,
               point \in {"idle", "probe", "ended"}
        PROVE  Attended'
    <2>1. Settled(Heartbeat, point).at = point
      BY <1>1, <1>2, SettledOK, Names DEF Core, Points
    <2> QED
      BY <1>1, <1>2, <2>1, QuietUp DEF Goto
  <1>3. CASE BeatRound
    BY <1>2, <1>3 DEF BeatRound, At
  <1>4. CASE BeatPong
    BY <1>2, <1>4 DEF BeatPong, At
  <1>5. CASE BeatTimeout
    BY <1>2, <1>5 DEF BeatTimeout, At
  <1>6. CASE BeatOver
    BY <1>2, <1>6 DEF BeatOver, At
  <1>7. ASSUME NEW p \in Peers, At(Heartbeat, "probe")
        PROVE  /\ Heartbeat \in TaskIds /\ ~IsReg(Heartbeat) /\ ~IsLoop(Heartbeat)
               /\ Turn(Heartbeat, p, "probe") /\ ReadsOn(Heartbeat, "probe")
               /\ WritesOK(Heartbeat, p, status) /\ StatusOK(p, status) /\ LinkOK(link)
    <2>1. ~At(Heartbeat, "marking")
      BY <1>7 DEF At
    <2>2. Target(Heartbeat, "probe")
      BY Names DEF Target, Place, Points, Tops, IsReg
    <2>3. StatusOK(p, status) /\ LinkOK(link)
      BY <1>1, StatusesUp DEF LinkOK, Core, TableOK
    <2> QED
      BY <1>1, <2>1, <2>2, <2>3, SingleTurn DEF WritesOK
  <1>8. ASSUME NEW p \in Peers, BeatDrop(p) PROVE Attended'
    <2>1. At(Heartbeat, "probe") /\ Disconnects(Heartbeat, p, "probe", status, link)
      BY <1>8 DEF BeatDrop
    <2> QED
      BY <1>1, <1>7, <2>1, DisconnectsUp
  <1>9. ASSUME NEW p \in Peers, BeatProbe(p) PROVE Attended'
    <2>1. At(Heartbeat, "probe")
      BY <1>9 DEF BeatProbe
    <2>2. CASE table[p] # None /\ Alive(link[table[p]])
      <3> DEFINE f == [task[Heartbeat] EXCEPT !.at = "sending", !.peer = p,
                                              !.out = table[p], !.next = "pong"]
      <3>1. /\ task' = [task EXCEPT ![Heartbeat] = f]
            /\ UNCHANGED <<table, status, link>>
        BY <1>9, <2>2 DEF BeatProbe, Sends
      <3>2. ~FreshIn(link, table[p]) /\ ~At(Heartbeat, "marking")
        BY <2>1, <2>2 DEF Attended, Tidy, At
      <3>3. f.out = table[p]
        BY <1>1, Names DEF Core, TaskOK, Frame
      <3> HIDE DEF f
      <3> QED
        BY <1>1, <3>1, <3>2, <3>3, QuietUp
    <2>3. CASE ~(table[p] # None /\ Alive(link[table[p]]))
      <3>1. UNCHANGED <<table, status, link, task>> /\ ~At(Heartbeat, "marking")
        BY <1>9, <2>1, <2>3 DEF BeatProbe, At
      <3> QED
        BY <1>1, <3>1, QuietUp
    <2> QED
      BY <2>2, <2>3
  <1> QED
    BY <1>3, <1>4, <1>5, <1>6, <1>8, <1>9 DEF Beating

LEMMA UpInit == Init => UpInv
PROOF
  <1> SUFFICES ASSUME Init PROVE Attended
    BY DEF UpInv
  <1>1. \A k \in Conns : /\ task[Reg(k)] = NewFrame(Reg(k)) /\ task[Loop(k)] = NewFrame(Loop(k))
                         /\ FreshIn(link, k)
    BY Names DEF Init, FreshIn
  <1>2. \A k \in Conns : /\ NewFrame(Reg(k)).at = "none" /\ NewFrame(Reg(k)).peer = PeerOf[k]
                         /\ NewFrame(Loop(k)).at = "none" /\ NewFrame(Loop(k)).peer = PeerOf[k]
                         /\ NewFrame(Loop(k)).conn = None
    BY Names DEF NewFrame
  <1>3. \A k \in Conns : RegFrame(k) /\ LoopFrame(k)
    BY <1>1, <1>2 DEF RegFrame, LoopFrame
  <1>4. \A x \in TaskIds : task[x].at # "sending"
    BY NewFrameOK DEF Init
  <1> QED
    BY <1>3, <1>4 DEF Init, Attended, Tidy, Watched, Awaited

LEMMA UpStep == Inv /\ Inv' /\ UpInv /\ [Next]_vars => UpInv'
PROOF
  <1> SUFFICES ASSUME Inv, Inv', UpInv, [Next]_vars, stage' = "up" PROVE Attended'
    BY DEF UpInv
  <1>1. Core /\ Core' /\ TaskOK
    BY DEF Inv, Core
  <1>2. CASE UNCHANGED vars
    <2>1. stage = "up" /\ UNCHANGED <<table, status, link, task>>
      BY <1>2 DEF vars
    <2>2. Attended
      BY <2>1 DEF UpInv
    <2> QED
      BY <2>1, <2>2
         DEF Attended, Tidy, RegFrame, LoopFrame, Watched, Awaited, Pending, Reads, At
  <1>3. ASSUME Next PROVE stage = "up"
    BY <1>3 DEF Next, Connecting, Serving, Beating, Resuming, Lose, Accept, Dial, Handshake,
         HandshakeFails, Register, StopGoodbye, StopClose, LoopStart, LoopFails, LoopBans,
         LoopCard, LoopAnswers, LoopDrops, LoopGoodbye, BeatRound, BeatPong, BeatTimeout,
         BeatOver, BeatProbe, BeatDrop, Mark, SendDone, SendFails, Send, Disconnect,
         StopBegin, StopCancel, StopClear
  <1>4. ASSUME Next PROVE Attended
    BY <1>3, <1>4 DEF UpInv
  <1>5. ASSUME Next, NEW k \in Conns, Connecting(k) PROVE Attended'
    <2>1. CASE Lose(k)
      BY <1>1, <1>4, <1>5, <2>1, LoseUp
    <2>2. CASE Accept(k) \/ Dial(k)
      <3>1. /\ task' = [task EXCEPT ![Reg(k)] = Settled(Reg(k), "handshake")]
            /\ link[k] = "unused" /\ link' = [link EXCEPT ![k] = "handshake"]
            /\ UNCHANGED <<table, status>>
        BY <2>2 DEF Accept, Dial, Handshake, Goto
      <3> QED
        BY <1>1, <1>4, <1>5, <3>1, MakingUp
    <2>3. CASE HandshakeFails(k)
      <3>1. /\ task' = [task EXCEPT ![Reg(k)] = Settled(Reg(k), "ended")]
            /\ At(Reg(k), "handshake") /\ link' = [link EXCEPT ![k] = "closed"]
            /\ UNCHANGED <<table, status>>
        BY <2>3 DEF HandshakeFails, Goto
      <3> QED
        BY <1>1, <1>4, <1>5, <3>1, MakingUp
    <2>4. CASE Register(k)
      BY <1>1, <1>4, <1>5, <2>4, RegisterUp
    <2>5. CASE StopGoodbye(k) \/ StopClose(k)
      BY <1>3, <1>5, <2>5 DEF StopGoodbye, StopClose
    <2> QED
      BY <1>5, <2>1, <2>2, <2>3, <2>4, <2>5 DEF Connecting
  <1>6. ASSUME Next, NEW k \in Conns, Serving(k) PROVE Attended'
    BY <1>1, <1>3, <1>4, <1>6, ServingUp
  <1>7. ASSUME Next, NEW p \in Peers, Send(p) \/ Disconnect(p) PROVE Attended'
    <2>1. At(Caller, "idle") /\ ~At(Caller, "marking") /\ Caller \in Singles
      BY <1>7 DEF Send, Disconnect, At, Singles
    <2>2. Target(Caller, "idle")
      BY Names DEF Target, Place, Points, Tops, IsReg
    <2>3. /\ Caller \in TaskIds /\ Turn(Caller, p, "idle") /\ ReadsOn(Caller, "idle")
          /\ ~IsReg(Caller) /\ ~IsLoop(Caller)
      BY <2>1, <2>2, SingleTurn
    <2>4. StatusOK(p, status) /\ LinkOK(link)
      BY <1>1, StatusesUp DEF LinkOK, Core, TableOK
    <2>5. WritesOK(Caller, p, status)
      BY <2>1, <2>4 DEF WritesOK
    <2>6. CASE Sends(Caller, p, "idle", status)
      BY <1>1, <1>4, <1>7, <2>3, <2>5, <2>6, SendsUp
    <2>7. CASE Disconnects(Caller, p, "idle", status, link)
      BY <1>1, <1>4, <1>7, <2>3, <2>4, <2>7, DisconnectsUp
    <2> QED
      BY <1>7, <2>6, <2>7 DEF Send, Disconnect
  <1>8. ASSUME Next, Beating PROVE Attended'
    BY <1>4, <1>8, BeatingUp
  <1>9. ASSUME Next, NEW x \in TaskIds, Resuming(x) PROVE Attended'
    BY <1>1, <1>4, <1>9, ResumingUp
  <1>10. CASE StopBegin \/ StopCancel \/ StopClear
    BY <1>10 DEF StopBegin, StopCancel, StopClear
  <1> QED
    BY <1>2, <1>5, <1>6, <1>7, <1>8, <1>9, <1>10 DEF Next

LEMMA UpAlways == Spec => [](Inv /\ UpInv)
PROOF
  BY InvInit, InvStep, UpInit, UpStep, PTL DEF Spec

\* While the host runs, every registered connection is still being registered
\* or has a receive loop of its peer that reads it, also when loops are slow
\* to start and read what another registration has put there since.
THEOREM EveryEntryRead == Spec => []EntryHasReader
PROOF
  <1>1. Inv /\ UpInv => EntryHasReader
    <2> SUFFICES ASSUME UpInv, stage = "up", NEW p \in Registered
                 PROVE  \/ task[Reg(table[p])].at # "ended"
                        \/ \E k \in Conns : PeerOf[k] = p /\ Reads(Loop(k), table[p])
      BY DEF EntryHasReader
    <2> QED
      BY DEF UpInv, Attended, Watched, Registered
  <1> QED
    BY <1>1, UpAlways, PTL

\* No peer is left VERIFIED, and so ignored by discovery, once its connection
\* is gone and nothing is under way that will mark it.
THEOREM NoneStranded == Spec => []NeverStranded
PROOF
  <1>1. Inv /\ UpInv => NeverStranded
    BY DEF UpInv, Attended, Awaited, Pending, NeverStranded
  <1> QED
    BY <1>1, UpAlways, PTL
=============================================================================
