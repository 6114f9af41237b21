------------------------ MODULE AgentRuntime_proofs ------------------------
(* Theorems about AgentRuntime and their proofs. *)
EXTENDS AgentRuntime, SequenceTheorems, TLAPS

-----------------------------------------------------------------------------
(* The inductive invariant *)

\* What the frame of scan s says: the file it is at has left its list, and the
\* agent it starts is its own, of that file, and no longer in the batch.
ScanOK(s, fr) ==
  /\ fr \in ScanFrame
  /\ fr.at \in {"unload", "stop", "start", "starting"} =>
       fr.file \in Files /\ fr.file \notin fr.todo
  /\ fr.at = "stop" => fr.who \in Agents
  /\ fr.at = "starting" => /\ fr.who \in Agents
                           /\ fr.who[1] = s /\ fr.who[2] = fr.file
                           /\ fr.who[3] \notin fr.batch

ScansOK == /\ scan \in [Scans -> ScanFrame]
           /\ \A s \in Scans : ScanOK(s, scan[s])

CallsOK == /\ call \in [Calls -> CallFrame]
           /\ \A c \in Calls : call[c].at = "handling" => call[c].queue # <<>>

\* The tables that hold no agent.
PlainOK ==
  /\ disk \in [Files -> 0..MaxTime] /\ clock \in 1..MaxTime
  /\ sources \in [Names -> Files \cup {None}]
  /\ mtimes \in [Files -> 0..MaxTime]
  /\ running \in BOOLEAN
  /\ loop \in Scans \cup Calls \cup {None}

\* The agents that may be handed out.
Ready == {i \in Agents : HasStarted(i)}

\* Whatever holds agents holds agents that are ready.
HandedOut ==
  /\ agents \in Seq(Ready)
  /\ stopping \in Seq(Ready)
  /\ subs \in [Topics -> Seq(Ready)]
  /\ \A c \in Calls : call[c].queue \in Seq(Ready)
  /\ \A s \in Scans : At(s, "stop") => scan[s].who \in Ready

\* The agents a frame of their scan has still to create or to start.
Ahead(fr, i) ==
  \/ fr.at = "new"
  \/ i[2] \in fr.todo
  \/ fr.file = i[2] /\ fr.at \in {"unload", "stop"}
  \/ fr.file = i[2] /\ fr.at \in {"start", "starting"} /\ i[3] \in fr.batch

StatesOK ==
  /\ state \in [Agents -> AgentStates]
  /\ \A i \in Agents : Ahead(scan[i[1]], i) => state[i] = "idle"
  /\ \A s \in Scans : At(s, "starting") => state[scan[s].who] = "running"

Inv == PlainOK /\ ScansOK /\ CallsOK /\ StatesOK /\ HandedOut /\ BusyIsWorked

-----------------------------------------------------------------------------
(* Sequences and tables of agents *)

LEMMA SeqMono == ASSUME NEW S, NEW T, S \subseteq T, NEW q \in Seq(S)
                 PROVE  q \in Seq(T)
  OBVIOUS

LEMMA SeqOps ==
  ASSUME NEW S, NEW q \in Seq(S)
  PROVE  /\ q # <<>> => Head(q) \in S /\ Tail(q) \in Seq(S)
         /\ \A e \in S : Append(q, e) \in Seq(S)
         /\ \A k \in DOMAIN q : q[k] \in S
         /\ \A k \in DOMAIN q, e \in S : [q EXCEPT ![k] = e] \in Seq(S)
         /\ \A k \in DOMAIN q : RemoveAt(q, k) \in Seq(S)
         /\ Reverse(q) \in Seq(S)
<1>1. \A k \in DOMAIN q : RemoveAt(q, k) \in Seq(S)
  <2> TAKE k \in DOMAIN q
  <2>1. k \in 1..Len(q) /\ Len(q) \in Nat  OBVIOUS
  <2>2. SubSeq(q, 1, k - 1) \in Seq(S)
    <3>1. \A j \in 1..(k - 1) : q[j] \in S  BY <2>1
    <3> QED  BY <2>1, <3>1, SubSeqProperties
  <2>3. SubSeq(q, k + 1, Len(q)) \in Seq(S)
    <3>1. \A j \in (k + 1)..Len(q) : q[j] \in S  BY <2>1
    <3> QED  BY <2>1, <3>1, SubSeqProperties
  <2> QED  BY <2>2, <2>3 DEF RemoveAt
<1>2. Reverse(q) \in Seq(S)
  <2>1. \A j \in 1..Len(q) : q[(Len(q) - j) + 1] \in S  OBVIOUS
  <2> QED  BY <2>1 DEF Reverse
<1>3. \A k \in DOMAIN q, e \in S : [q EXCEPT ![k] = e] \in Seq(S)
  BY ExceptSeq
<1> QED  BY <1>1, <1>2, <1>3

\* What the operations on the table of loaded agents return.
LEMMA TableOps ==
  ASSUME NEW S, S \subseteq Agents, agents \in Seq(S)
  PROVE  /\ \A i \in S : Put(i) \in Seq(S)
         /\ \A n \in Names : Pop(n) \in Seq(S)
         /\ \A n \in Names : Loaded(n) => Get(n) \in S
<1>1. \A n \in Names : Loaded(n) => IndexOf(n) \in DOMAIN agents
  BY DEF Loaded, IndexOf
<1>2. \A i \in S : NameOf(i) \in Names
  BY DEF Agents, NameOf
<1>3. \A i \in S : Put(i) \in Seq(S)
  BY <1>1, <1>2, SeqOps DEF Put
<1>4. \A n \in Names : Pop(n) \in Seq(S)
  BY <1>1, SeqOps DEF Pop
<1>5. \A n \in Names : Loaded(n) => Get(n) \in S
  BY <1>1, SeqOps DEF Get
<1> QED  BY <1>3, <1>4, <1>5

\* Agents stay ready unless a step resets, fails or starts them.
LEMMA ReadyKept ==
  ASSUME \A i \in Ready : state'[i] \notin {"idle", "error"},
         \A i \in Ready, s \in Scans : At(s, "starting")' => scan'[s].who # i
  PROVE  Ready \subseteq Ready'
  BY DEF Ready, HasStarted, At

\* Then what held ready agents before a step still does.
LEMMA HandedKept ==
  ASSUME HandedOut, Ready \subseteq Ready'
  PROVE  /\ agents \in Seq(Ready') /\ stopping \in Seq(Ready')
         /\ subs \in [Topics -> Seq(Ready')]
         /\ \A c \in Calls : call[c].queue \in Seq(Ready')
         /\ \A s \in Scans : At(s, "stop") => scan[s].who \in Ready'
<1>1. \A q \in Seq(Ready) : q \in Seq(Ready')
  BY SeqMono
<1> QED  BY <1>1 DEF HandedOut

LEMMA ReadyAgents == Ready \subseteq Agents /\ Ready' \subseteq Agents
  BY DEF Ready

\* The frame of scan s after a step, and those of the others.
LEMMA StepFrames ==
  ASSUME ScansOK, NEW s \in Scans, NEW fr, ScanOK(s, fr), Step(s, fr)
  PROVE  /\ ScansOK'
         /\ scan' = [scan EXCEPT ![s] = fr]
         /\ scan'[s] = fr
         /\ \A r \in Scans : r # s => scan'[r] = scan[r]
  BY DEF ScansOK, Step, ScanOK

LEMMA NoScanOK == \A s : ScanOK(s, NoScan)
  BY RuntimeAssumption DEF ScanOK, NoScan, ScanFrame

\* A step keeps what StatesOK says if it changes the states of ready agents only
\* and no scan starts an agent or gets agents ahead of it.
LEMMA StatesKept ==
  ASSUME ScansOK, StatesOK, state' \in [Agents -> AgentStates],
         \A i \in Agents : i \notin Ready => state'[i] = state[i],
         \A r \in Scans : \/ scan'[r] = scan[r]
                          \/ /\ scan'[r].at # "starting"
                             /\ \A i \in Agents : i[1] = r /\ Ahead(scan'[r], i) => Ahead(scan[r], i)
  PROVE  StatesOK'
<1>1. \A i \in Agents : Ahead(scan[i[1]], i)' => state'[i] = "idle"
  <2> SUFFICES ASSUME NEW i \in Agents, Ahead(scan'[i[1]], i)
               PROVE  state'[i] = "idle"
    BY DEF Ahead
  <2>1. i[1] \in Scans  BY DEF Agents
  <2>2. Ahead(scan[i[1]], i)  BY <2>1
  <2>3. state[i] = "idle"  BY <2>2 DEF StatesOK
  <2> QED  BY <2>3 DEF Ready, HasStarted
<1>2. \A r \in Scans : At(r, "starting")' => state'[scan'[r].who] = "running"
  <2> SUFFICES ASSUME NEW r \in Scans, scan'[r].at = "starting"
               PROVE  state'[scan'[r].who] = "running"
    BY DEF At
  <2>1. scan'[r] = scan[r] /\ At(r, "starting") /\ scan[r].who \in Agents
    BY DEF At, ScansOK, ScanOK
  <2>2. scan[r].who \notin Ready  BY <2>1 DEF Ready, HasStarted
  <2> QED  BY <2>1, <2>2 DEF StatesOK
<1> QED  BY <1>1, <1>2 DEF StatesOK

-----------------------------------------------------------------------------
(* Steps of a scan *)

\* A step of a scan that hands out no agent, changes no state, and brings no
\* agent back into what the scan has ahead of it.
LEMMA QuietScan ==
  ASSUME Inv, NEW s \in Scans, NEW fr, ScanOK(s, fr), Step(s, fr),
         fr.at \notin {"stop", "starting"},
         \A i \in Agents : i[1] = s /\ Ahead(fr, i) => Ahead(scan[s], i),
         UNCHANGED <<state, agents, subs, stopping, call>>, PlainOK'
  PROVE  Inv'
<1> USE DEF Inv
<1>1. /\ ScansOK' /\ scan'[s] = fr
      /\ \A r \in Scans : r # s => scan'[r] = scan[r]
  BY StepFrames
<1>2. Ready \subseteq Ready'
  <2>1. \A i \in Ready : state'[i] \notin {"idle", "error"}
    BY DEF Ready, HasStarted
  <2>2. \A i \in Ready, r \in Scans : At(r, "starting")' => scan'[r].who # i
    BY <1>1 DEF Ready, HasStarted, At
  <2> QED  BY <2>1, <2>2, ReadyKept
<1>3. HandedOut'
  BY <1>1, <1>2, HandedKept DEF HandedOut, At
<1>4. StatesOK'
  BY <1>1, StatesKept DEF StatesOK
<1>5. CallsOK' /\ BusyIsWorked'
  BY DEF CallsOK, BusyIsWorked, Handles
<1> QED  BY <1>1, <1>3, <1>4, <1>5

LEMMA FrameOf ==
  ASSUME ScansOK, NEW s \in Scans
  PROVE  ScanOK(s, scan[s]) /\ scan[s] \in ScanFrame
  BY DEF ScansOK

LEMMA VisitKeeps ==
  ASSUME Inv, NEW s \in Scans, NEW f \in Files, Visit(s, f)
  PROVE  Inv'
<1> DEFINE left    == [scan[s] EXCEPT !.todo = @ \ {f}]
           changed == s # Boot /\ mtimes[f] # 0
           there   == [left EXCEPT !.at = "unload", !.file = f, !.seen = disk[f],
                             !.changed = changed,
                             !.old = IF changed THEN {n \in Names : sources[n] = f} ELSE {}]
<1>0. ScanOK(s, scan[s]) /\ scan[s] \in ScanFrame /\ At(s, "scan") /\ f \in scan[s].todo
  BY FrameOf DEF Inv, Visit
<1>1. PlainOK'
  BY DEF Inv, PlainOK, Visit, Loader
<1>2. UNCHANGED <<state, agents, subs, stopping, call>>
  BY DEF Visit, Loader
<1>3. CASE Step(s, [NoScan EXCEPT !.at = "raised"])
  <2>1. ScanOK(s, [NoScan EXCEPT !.at = "raised"])
    BY NoScanOK DEF ScanOK, NoScan, ScanFrame
  <2>2. \A i : ~Ahead([NoScan EXCEPT !.at = "raised"], i)
    BY DEF Ahead, NoScan
  <2> QED  BY <1>1, <1>2, <1>3, <2>1, <2>2, QuietScan DEF NoScan
<1>4. CASE Step(s, left)
  <2>1. ScanOK(s, left) /\ left.at = "scan"
    BY <1>0 DEF ScanOK, ScanFrame, At
  <2>2. \A i : Ahead(left, i) => Ahead(scan[s], i)
    BY <1>0 DEF Ahead, ScanFrame
  <2> QED  BY <1>1, <1>2, <1>4, <2>1, <2>2, QuietScan
<1>5. CASE Step(s, there)
  <2>1. ScanOK(s, there) /\ there.at = "unload"
    BY <1>0 DEF ScanOK, ScanFrame, At, Inv, PlainOK
  <2>2. \A i : Ahead(there, i) => Ahead(scan[s], i)
    BY <1>0 DEF Ahead, ScanFrame
  <2> QED  BY <1>1, <1>2, <1>5, <2>1, <2>2, QuietScan
<1> QED  BY <1>3, <1>4, <1>5 DEF Visit

LEMMA LoadKeeps ==
  ASSUME Inv, NEW s \in Scans, Load(s)
  PROVE  Inv'
<1> DEFINE found == Classes[scan[s].file][disk[scan[s].file]]
           fr    == [scan[s] EXCEPT !.at = "start", !.batch = {n \in found : ~Loaded(n)}]
<1>0. ScanOK(s, scan[s]) /\ scan[s] \in ScanFrame /\ At(s, "unload")
  BY FrameOf DEF Inv, Load
<1>1. scan[s].file \in Files /\ scan[s].file \notin scan[s].todo
  BY <1>0 DEF ScanOK, At
<1>2. found \subseteq Names
  <2>1. disk[scan[s].file] \in 1..MaxTime
    BY <1>1, RuntimeAssumption DEF Load, Inv, PlainOK
  <2> QED  BY <1>1, <2>1, RuntimeAssumption
<1>3. ScanOK(s, fr) /\ fr.at = "start"
  <2>1. {n \in found : ~Loaded(n)} \subseteq Names  BY <1>2
  <2> QED  BY <1>0, <1>1, <2>1 DEF ScanOK, ScanFrame
<1>4. \A i : Ahead(fr, i) => Ahead(scan[s], i)
  BY <1>0 DEF Ahead, ScanFrame, At
<1>5. PlainOK' /\ UNCHANGED <<state, agents, subs, stopping, call>> /\ Step(s, fr)
  BY DEF Load, Inv, PlainOK, Loader
<1> QED  BY <1>3, <1>4, <1>5, QuietScan

LEMMA ReturnToScan ==
  ASSUME Inv, NEW s \in Scans, LoadFails(s) \/ Record(s)
  PROVE  Inv'
<1> DEFINE fr == [scan[s] EXCEPT !.at = "scan", !.file = None]
<1>0. ScanOK(s, scan[s]) /\ scan[s] \in ScanFrame
  BY FrameOf DEF Inv
<1>1. ScanOK(s, fr) /\ fr.at = "scan"
  BY <1>0 DEF ScanOK, ScanFrame
<1>2. \A i \in Agents : Ahead(fr, i) => Ahead(scan[s], i)
  BY <1>0 DEF Ahead, ScanFrame
<1>3. UNCHANGED <<state, agents, subs, stopping, call>> /\ Step(s, fr)
  BY DEF LoadFails, Record, Loader
<1>4. PlainOK'
  <2>1. CASE LoadFails(s)  BY <2>1 DEF LoadFails, Inv, PlainOK, Loader
  <2>2. CASE Record(s)
    <3>1. scan[s].file \in Files /\ scan[s].seen \in 0..MaxTime
      BY <1>0, <2>2 DEF Record, ScanOK, ScanFrame, At
    <3> QED  BY <2>2, <3>1 DEF Record, Inv, PlainOK
  <2> QED  BY <2>1, <2>2
<1> QED  BY <1>1, <1>2, <1>3, <1>4, QuietScan

LEMMA EndScanKeeps ==
  ASSUME Inv, NEW s \in Scans, EndScan(s)
  PROVE  Inv'
<1> DEFINE fr == [NoScan EXCEPT !.at = "wire", !.files = scan[s].files, !.wire = ToWire(s)]
<1>0. scan[s] \in ScanFrame
  BY FrameOf DEF Inv
<1>1. ToWire(s) \in Seq(Names)
  <2>1. scan[s].added \o scan[s].updated \in Seq(Names)
    BY <1>0, ConcatProperties DEF ScanFrame
  <2>2. [k \in DOMAIN agents |-> NameOf(agents[k])] \in Seq(Names)
    <3>1. agents \in Seq(Agents)
      BY SeqMono, ReadyAgents DEF Inv, HandedOut
    <3>2. \A k \in DOMAIN agents : NameOf(agents[k]) \in Names
      BY <3>1, SeqOps DEF NameOf, Agents
    <3> QED  BY <3>1, <3>2
  <2> QED  BY <2>1, <2>2 DEF ToWire
<1>2. ScanOK(s, fr) /\ fr.at = "wire"
  BY <1>0, <1>1, NoScanOK DEF ScanOK, ScanFrame, NoScan
<1>3. \A i : ~Ahead(fr, i)
  BY DEF Ahead, NoScan
<1>4. UNCHANGED <<state, agents, subs, stopping, call>> /\ Step(s, fr) /\ PlainOK'
  BY DEF EndScan, Loader, Inv, PlainOK
<1> QED  BY <1>2, <1>3, <1>4, QuietScan

LEMMA EndWireKeeps ==
  ASSUME Inv, NEW s \in Scans, EndWire(s)
  PROVE  Inv'
<1> DEFINE fr == [NoScan EXCEPT !.at = "done"]
<1>1. ScanOK(s, fr) /\ fr.at = "done"
  BY NoScanOK DEF ScanOK, ScanFrame, NoScan
<1>2. \A i : ~Ahead(fr, i)
  BY DEF Ahead, NoScan
<1>3. UNCHANGED <<state, agents, subs, stopping, call>> /\ Step(s, fr) /\ PlainOK'
  BY DEF EndWire, Loader, Inv, PlainOK
<1> QED  BY <1>1, <1>2, <1>3, QuietScan

LEMMA BeginKeeps ==
  ASSUME Inv, StartRuntime \/ \E r \in Reloads : Reload(r)
  PROVE  Inv'
<1> DEFINE fr == [NoScan EXCEPT !.at = "scan", !.files = Present, !.todo = Present]
<1>1. PICK s \in Scans : At(s, "new") /\ Step(s, fr) /\ loop' = s
  BY DEF StartRuntime, Reload, Scans
<1>2. \A s1 : ScanOK(s1, fr) /\ fr.at = "scan"
  BY NoScanOK DEF ScanOK, ScanFrame, NoScan, Present
<1>3. \A i : Ahead(scan[s], i)
  BY <1>1 DEF Ahead, At
<1>4. UNCHANGED <<state, agents, subs, stopping, call>> /\ PlainOK'
  BY <1>1 DEF StartRuntime, Reload, Loader, Inv, PlainOK
<1> QED  BY <1>1, <1>2, <1>3, <1>4, QuietScan

\* _wire_agent: the agent wired is a loaded one, and so ready.
LEMMA WireKeeps ==
  ASSUME Inv, NEW s \in Scans, Wire(s)
  PROVE  Inv'
<1> DEFINE fr == [scan[s] EXCEPT !.wire = Tail(@)]
<1>0. ScanOK(s, scan[s]) /\ scan[s] \in ScanFrame /\ scan[s].at = "wire"
  BY FrameOf DEF Inv, Wire, At
<1>1. Head(scan[s].wire) \in Names /\ Tail(scan[s].wire) \in Seq(Names)
  BY <1>0, SeqOps DEF Wire, ScanFrame
<1>2. ScanOK(s, fr) /\ fr.at = "wire"
  BY <1>0, <1>1 DEF ScanOK, ScanFrame
<1>3. Step(s, fr) /\ UNCHANGED <<state, agents, stopping, call>> /\ PlainOK'
  BY DEF Wire, Loader, Inv, PlainOK
<1>4. /\ ScansOK' /\ scan'[s] = fr
      /\ \A r \in Scans : r # s => scan'[r] = scan[r]
  BY <1>2, <1>3, StepFrames DEF Inv
<1>5. Ready \subseteq Ready'
  <2>1. \A i \in Ready : state'[i] \notin {"idle", "error"}
    BY <1>3 DEF Ready, HasStarted
  <2>2. \A i \in Ready, r \in Scans : At(r, "starting")' => scan'[r].who # i
    BY <1>2, <1>4 DEF Ready, HasStarted, At
  <2> QED  BY <2>1, <2>2, ReadyKept
<1>6. subs' \in [Topics -> Seq(Ready')]
  <2> DEFINE n == Head(scan[s].wire)
  <2>1. Loaded(n) => Get(n) \in Ready
    BY <1>1, ReadyAgents, TableOps DEF Inv, HandedOut
  <2>2. \A t \in Topics : subs[t] \in Seq(Ready') /\ (Loaded(n) => Append(subs[t], Get(n)) \in Seq(Ready'))
    BY <1>5, <2>1, HandedKept, SeqOps DEF Inv
  <2> QED  BY <2>2 DEF Wire, Subscribed
<1>7. HandedOut'
  BY <1>2, <1>3, <1>4, <1>5, <1>6, HandedKept DEF HandedOut, At, Inv
<1>8. StatesOK'
  <2>1. \A i : Ahead(fr, i) => Ahead(scan[s], i)  BY <1>0 DEF Ahead, ScanFrame
  <2> HIDE DEF fr
  <2> QED  BY <1>2, <1>3, <1>4, <2>1, StatesKept DEF Inv, StatesOK
<1>9. CallsOK' /\ BusyIsWorked'
  BY <1>3 DEF CallsOK, BusyIsWorked, Handles, Inv
<1> QED  BY <1>3, <1>4, <1>7, <1>8, <1>9 DEF Inv

LEMMA UnloadKeeps ==
  ASSUME Inv, NEW s \in Scans, NEW n \in Names, Unload(s, n)
  PROVE  Inv'
<1> DEFINE left == [scan[s] EXCEPT !.old = @ \ {n}]
           stop == [left EXCEPT !.at = "stop", !.who = Get(n)]
<1>0. ScanOK(s, scan[s]) /\ scan[s] \in ScanFrame /\ scan[s].at = "unload"
  BY FrameOf DEF Inv, Unload, At
<1>1. /\ agents \in Seq(Ready) /\ Pop(n) \in Seq(Ready)
      /\ Loaded(n) => Get(n) \in Ready
  BY ReadyAgents, TableOps DEF Inv, HandedOut
<1> DEFINE fr == IF Loaded(n) THEN stop ELSE left
<1>2. Step(s, fr) /\ loop' \in {None, s}
  <2>1. CASE Loaded(n)  BY <2>1 DEF Unload
  <2>2. CASE ~Loaded(n)  BY <2>2 DEF Unload
  <2> QED  BY <2>1, <2>2
<1>3. ScanOK(s, fr) /\ fr.at \in {"unload", "stop"} /\ (fr.at = "stop" => fr.who \in Ready)
  BY <1>0, <1>1, <1>2, ReadyAgents DEF ScanOK, ScanFrame
<1>4. UNCHANGED <<state, subs, stopping, call>> /\ agents' = Pop(n) /\ PlainOK'
  BY <1>2 DEF Unload, Inv, PlainOK
<1>5. /\ ScansOK' /\ scan'[s] = fr
      /\ \A r \in Scans : r # s => scan'[r] = scan[r]
  BY <1>2, <1>3, StepFrames DEF Inv
<1>6. Ready \subseteq Ready'
  <2>1. \A i \in Ready : state'[i] \notin {"idle", "error"}
    BY <1>4 DEF Ready, HasStarted
  <2>2. \A i \in Ready, r \in Scans : At(r, "starting")' => scan'[r].who # i
    BY <1>3, <1>5 DEF Ready, HasStarted, At
  <2> QED  BY <2>1, <2>2, ReadyKept
<1>7. HandedOut'
  <2>1. agents' \in Seq(Ready')  BY <1>1, <1>4, <1>6, SeqMono
  <2> QED  BY <1>3, <1>4, <1>5, <1>6, <2>1, HandedKept DEF HandedOut, At, Inv
<1>8. StatesOK'
  <2>1. \A i : Ahead(fr, i) => Ahead(scan[s], i)  BY <1>0, <1>2 DEF Ahead, ScanFrame
  <2> HIDE DEF fr
  <2> QED  BY <1>3, <1>4, <1>5, <2>1, StatesKept DEF Inv, StatesOK
<1>9. CallsOK' /\ BusyIsWorked'
  BY <1>4 DEF CallsOK, BusyIsWorked, Handles, Inv
<1> QED  BY <1>4, <1>5, <1>7, <1>8, <1>9 DEF Inv

LEMMA UnloadedKeeps ==
  ASSUME Inv, NEW s \in Scans, Unloaded(s)
  PROVE  Inv'
<1> DEFINE fr == [scan[s] EXCEPT !.at = "unload", !.who = None]
           i  == scan[s].who
<1>0. ScanOK(s, scan[s]) /\ scan[s] \in ScanFrame /\ scan[s].at = "stop"
  BY FrameOf DEF Inv, Unloaded, At
<1>1. i \in Ready /\ i \in Agents
  BY <1>0, ReadyAgents DEF Inv, HandedOut, At
<1>2. ScanOK(s, fr) /\ fr.at = "unload"
  BY <1>0 DEF ScanOK, ScanFrame
<1>3. Step(s, fr) /\ UNCHANGED <<agents, subs, stopping, call>> /\ PlainOK'
  BY DEF Unloaded, Loader, Inv, PlainOK
<1>4. \/ state' = [state EXCEPT ![i] = "stopped"]
      \/ state' = state
  BY DEF Unloaded
<1>5. /\ ScansOK' /\ scan'[s] = fr
      /\ \A r \in Scans : r # s => scan'[r] = scan[r]
  BY <1>2, <1>3, StepFrames DEF Inv
<1>6. Ready \subseteq Ready'
  <2>1. \A j \in Ready : state'[j] \notin {"idle", "error"}
    BY <1>1, <1>4 DEF Ready, HasStarted, Inv, StatesOK
  <2>2. \A j \in Ready, r \in Scans : At(r, "starting")' => scan'[r].who # j
    BY <1>2, <1>5 DEF Ready, HasStarted, At
  <2> QED  BY <2>1, <2>2, ReadyKept
<1>7. HandedOut'
  BY <1>2, <1>3, <1>5, <1>6, HandedKept DEF HandedOut, At, Inv
<1>8. StatesOK'
  <2>1. \A j : Ahead(fr, j) => Ahead(scan[s], j)  BY <1>0 DEF Ahead, ScanFrame
  <2>2. state' \in [Agents -> AgentStates]
    BY <1>1, <1>4 DEF StatesOK, AgentStates, Inv
  <2>3. \A j \in Agents : j \notin Ready => state'[j] = state[j]
    BY <1>1, <1>4 DEF StatesOK, Inv
  <2> HIDE DEF fr
  <2> QED  BY <1>2, <1>5, <2>1, <2>2, <2>3, StatesKept DEF Inv
<1>9. CallsOK' /\ BusyIsWorked'
  <2>1. \A j \in Agents : state'[j] = "busy" => state[j] = "busy"
    BY <1>1, <1>4 DEF StatesOK, Inv
  <2> QED  BY <1>3, <2>1 DEF CallsOK, BusyIsWorked, Handles, Inv
<1> QED  BY <1>3, <1>5, <1>7, <1>8, <1>9 DEF Inv

\* The agent started is idle, so nothing that is ready is touched; it is not
\* ready before its start() has ended.
LEMMA StartKeeps ==
  ASSUME Inv, NEW s \in Scans, NEW n \in Names, Start(s, n)
  PROVE  Inv' /\ state[<<s, scan[s].file, n>>] = "idle"
<1> DEFINE i  == <<s, scan[s].file, n>>
           fr == [scan[s] EXCEPT !.at = "starting", !.who = i, !.batch = @ \ {n}]
<1>0. /\ ScanOK(s, scan[s]) /\ scan[s] \in ScanFrame /\ scan[s].at = "start"
      /\ n \in scan[s].batch
  BY FrameOf DEF Inv, Start, At
<1>1. /\ i \in Agents /\ i[1] = s /\ i[2] = scan[s].file /\ i[3] = n
      /\ scan[s].file \in Files /\ scan[s].file \notin scan[s].todo
  BY <1>0 DEF ScanOK, Agents
<1>2. state[i] = "idle"
  <2>1. Ahead(scan[i[1]], i)  BY <1>0, <1>1 DEF Ahead
  <2> QED  BY <1>1, <2>1 DEF StatesOK, Inv
<1>3. /\ fr \in ScanFrame /\ fr.at = "starting" /\ fr.who = i /\ fr.file = scan[s].file
      /\ fr.todo = scan[s].todo /\ fr.batch = scan[s].batch \ {n}
  BY <1>0, <1>1 DEF ScanFrame
<1>4. ScanOK(s, fr)
  BY <1>1, <1>3 DEF ScanOK
<1>5. /\ Step(s, fr) /\ UNCHANGED <<agents, subs, stopping, call>> /\ PlainOK'
      /\ state' = [state EXCEPT ![i] = "running"]
  BY DEF Start, Loader, Inv, PlainOK
<1> HIDE DEF fr
<1>6. /\ ScansOK' /\ scan'[s] = fr
      /\ \A r \in Scans : r # s => scan'[r] = scan[r]
  BY <1>4, <1>5, StepFrames DEF Inv
<1>7. Ready \subseteq Ready'
  <2>1. i \notin Ready  BY <1>2 DEF Ready, HasStarted
  <2>2. \A j \in Ready : state'[j] \notin {"idle", "error"}
    BY <1>1, <1>5, <2>1 DEF Ready, HasStarted, Inv, StatesOK
  <2>3. \A j \in Ready, r \in Scans : At(r, "starting")' => scan'[r].who # j
    BY <1>3, <1>6, <2>1 DEF Ready, HasStarted, At
  <2> QED  BY <2>2, <2>3, ReadyKept
<1>8. HandedOut'
  BY <1>3, <1>5, <1>6, <1>7, HandedKept DEF HandedOut, At, Inv
<1>9. StatesOK'
  <2>1. state' \in [Agents -> AgentStates]
    BY <1>1, <1>5 DEF StatesOK, AgentStates, Inv
  <2>2. \A j \in Agents : Ahead(scan[j[1]], j)' => state'[j] = "idle"
    <3> SUFFICES ASSUME NEW j \in Agents, Ahead(scan'[j[1]], j)
                 PROVE  state'[j] = "idle"
      BY DEF Ahead
    <3>1. j[1] \in Scans /\ j = <<j[1], j[2], j[3]>>  BY DEF Agents
    <3>2. Ahead(scan[j[1]], j) /\ j # i
      BY <1>0, <1>1, <1>3, <1>6, <3>1 DEF Ahead
    <3>3. state[j] = "idle"  BY <3>2 DEF StatesOK, Inv
    <3> QED  BY <1>1, <1>5, <3>2, <3>3 DEF StatesOK, Inv
  <2>3. \A r \in Scans : At(r, "starting")' => state'[scan'[r].who] = "running"
    <3> SUFFICES ASSUME NEW r \in Scans, scan'[r].at = "starting"
                 PROVE  state'[scan'[r].who] = "running"
      BY DEF At
    <3>1. CASE r = s  BY <1>1, <1>3, <1>5, <1>6, <3>1 DEF StatesOK, Inv
    <3>2. CASE r # s
      <4>1. scan'[r] = scan[r] /\ scan[r].who \in Agents /\ At(r, "starting")
        BY <1>6, <3>2 DEF At, ScansOK, ScanOK, Inv
      <4> QED  BY <1>1, <1>5, <4>1 DEF StatesOK, Inv
    <3> QED  BY <3>1, <3>2
  <2> QED  BY <2>1, <2>2, <2>3 DEF StatesOK
<1>10. CallsOK' /\ BusyIsWorked'
  <2>1. \A j \in Agents : state'[j] = "busy" => state[j] = "busy"
    BY <1>1, <1>5 DEF StatesOK, Inv
  <2> QED  BY <1>5, <2>1 DEF CallsOK, BusyIsWorked, Handles, Inv
<1> QED  BY <1>2, <1>5, <1>6, <1>8, <1>9, <1>10 DEF Inv

\* Only one scan starts an agent, since a scan starts its own.
LEMMA OneStarter ==
  ASSUME ScansOK, NEW s \in Scans, At(s, "starting"),
         NEW r \in Scans, At(r, "starting"), scan[r].who = scan[s].who
  PROVE  r = s
  BY DEF ScansOK, ScanOK, At

LEMMA StartedKeeps ==
  ASSUME Inv, NEW s \in Scans, Started(s)
  PROVE  Inv'
<1> DEFINE i  == scan[s].who
           n  == NameOf(i)
           fr == [scan[s] EXCEPT !.at = "start", !.who = None,
                    !.added   = IF scan[s].changed THEN @ ELSE Append(@, n),
                    !.updated = IF scan[s].changed THEN Append(@, n) ELSE @]
<1>0. ScanOK(s, scan[s]) /\ scan[s] \in ScanFrame /\ scan[s].at = "starting"
  BY FrameOf DEF Inv, Started, At
<1>1. i \in Agents /\ n \in Names /\ state[i] = "running" /\ scan[s].file \in Files
  BY <1>0 DEF ScanOK, Agents, NameOf, Inv, StatesOK, At
<1>2. Append(scan[s].added, n) \in Seq(Names) /\ Append(scan[s].updated, n) \in Seq(Names)
  BY <1>0, <1>1, SeqOps DEF ScanFrame
<1>3. ScanOK(s, fr) /\ fr.at = "start"
  BY <1>0, <1>2 DEF ScanOK, ScanFrame
<1>4. /\ Step(s, fr) /\ UNCHANGED <<state, subs, stopping, call>> /\ PlainOK'
      /\ agents' = Put(i)
  <2>1. sources' = [sources EXCEPT ![n] = scan[s].file]  BY DEF Started
  <2> QED  BY <1>1, <2>1 DEF Started, Inv, PlainOK
<1>5. \A j : Ahead(fr, j) => Ahead(scan[s], j)
  BY <1>0 DEF Ahead, ScanFrame
<1> HIDE DEF fr
<1>6. /\ ScansOK' /\ scan'[s] = fr
      /\ \A r \in Scans : r # s => scan'[r] = scan[r]
  BY <1>3, <1>4, StepFrames DEF Inv
<1>7. Ready \subseteq Ready' /\ i \in Ready'
  <2>1. \A j \in Ready : state'[j] \notin {"idle", "error"}
    BY <1>4 DEF Ready, HasStarted
  <2>2. \A j \in Ready, r \in Scans : At(r, "starting")' => scan'[r].who # j
    BY <1>3, <1>6 DEF Ready, HasStarted, At
  <2>3. \A r \in Scans : At(r, "starting")' => scan'[r].who # i
    BY <1>0, <1>3, <1>6, OneStarter DEF At, Inv
  <2> QED  BY <1>1, <1>4, <2>1, <2>2, <2>3, ReadyKept DEF Ready, HasStarted
<1>8. HandedOut'
  <2>1. agents \in Seq(Ready')  BY <1>7, HandedKept DEF Inv
  <2>2. agents' \in Seq(Ready')  BY <1>4, <1>7, <2>1, ReadyAgents, TableOps
  <2> QED  BY <1>3, <1>4, <1>6, <1>7, <2>2, HandedKept DEF HandedOut, At, Inv
<1>9. StatesOK'
  BY <1>3, <1>4, <1>5, <1>6, StatesKept DEF Inv, StatesOK
<1>10. CallsOK' /\ BusyIsWorked'
  BY <1>4 DEF CallsOK, BusyIsWorked, Handles, Inv
<1> QED  BY <1>4, <1>6, <1>8, <1>9, <1>10 DEF Inv

LEMMA StartFailsKeeps ==
  ASSUME Inv, NEW s \in Scans, StartFails(s)
  PROVE  Inv' /\ state[scan[s].who] = "running"
<1> DEFINE i  == scan[s].who
           fr == [scan[s] EXCEPT !.at = "scan", !.file = None, !.who = None, !.batch = {}]
<1>0. ScanOK(s, scan[s]) /\ scan[s] \in ScanFrame /\ scan[s].at = "starting"
  BY FrameOf DEF Inv, StartFails, At
<1>1. i \in Agents /\ state[i] = "running" /\ i[1] = s /\ ~Ahead(scan[s], i)
  BY <1>0 DEF ScanOK, Inv, StatesOK, At, Ahead
<1>2. ScanOK(s, fr) /\ fr.at = "scan"
  BY <1>0 DEF ScanOK, ScanFrame
<1>3. /\ Step(s, fr) /\ UNCHANGED <<agents, subs, stopping, call>> /\ PlainOK'
      /\ state' = [state EXCEPT ![i] = "error"]
  BY DEF StartFails, Loader, Inv, PlainOK
<1>4. \A j \in Agents : Ahead(fr, j) => Ahead(scan[s], j)
  BY <1>0, RuntimeAssumption DEF Ahead, ScanFrame
<1> HIDE DEF fr
<1>5. /\ ScansOK' /\ scan'[s] = fr
      /\ \A r \in Scans : r # s => scan'[r] = scan[r]
  BY <1>2, <1>3, StepFrames DEF Inv
<1>6. i \notin Ready
  BY <1>0 DEF Ready, HasStarted, At
<1>7. Ready \subseteq Ready'
  <2>1. \A j \in Ready : state'[j] \notin {"idle", "error"}
    BY <1>3, <1>6 DEF Ready, HasStarted, Inv, StatesOK
  <2>2. \A j \in Ready, r \in Scans : At(r, "starting")' => scan'[r].who # j
    BY <1>2, <1>5 DEF Ready, HasStarted, At
  <2> QED  BY <2>1, <2>2, ReadyKept
<1>8. HandedOut'
  BY <1>2, <1>3, <1>5, <1>7, HandedKept DEF HandedOut, At, Inv
<1>9. StatesOK'
  <2>1. state' \in [Agents -> AgentStates]
    BY <1>1, <1>3 DEF StatesOK, AgentStates, Inv
  <2>2. \A j \in Agents : Ahead(scan[j[1]], j)' => state'[j] = "idle"
    <3> SUFFICES ASSUME NEW j \in Agents, Ahead(scan'[j[1]], j)
                 PROVE  state'[j] = "idle"
      BY DEF Ahead
    <3>1. j[1] \in Scans  BY DEF Agents
    <3>2. Ahead(scan[j[1]], j) /\ j # i
      BY <1>1, <1>4, <1>5, <3>1
    <3>3. state[j] = "idle"  BY <3>2 DEF StatesOK, Inv
    <3> QED  BY <1>1, <1>3, <3>2, <3>3 DEF StatesOK, Inv
  <2>3. \A r \in Scans : At(r, "starting")' => state'[scan'[r].who] = "running"
    <3> SUFFICES ASSUME NEW r \in Scans, scan'[r].at = "starting"
                 PROVE  state'[scan'[r].who] = "running"
      BY DEF At
    <3>1. r # s /\ scan'[r] = scan[r] /\ At(r, "starting") /\ scan[r].who \in Agents
      BY <1>2, <1>5 DEF At, ScansOK, ScanOK, Inv
    <3>2. scan[r].who # i  BY <1>0, <3>1, OneStarter DEF At, Inv
    <3> QED  BY <1>1, <1>3, <3>1, <3>2 DEF StatesOK, Inv
  <2> QED  BY <2>1, <2>2, <2>3 DEF StatesOK
<1>10. CallsOK' /\ BusyIsWorked'
  <2>1. \A j \in Agents : state'[j] = "busy" => state[j] = "busy"
    BY <1>1, <1>3 DEF StatesOK, Inv
  <2> QED  BY <1>3, <2>1 DEF CallsOK, BusyIsWorked, Handles, Inv
<1> QED  BY <1>1, <1>3, <1>5, <1>8, <1>9, <1>10 DEF Inv

-----------------------------------------------------------------------------
(* Steps of a call, of stop(), and changes of the directory *)

\* A step that leaves the scans alone keeps the agents ready if it changes the
\* states of ready agents only and makes none of them idle or failed.
LEMMA ReadySteps ==
  ASSUME Inv, UNCHANGED scan, state' \in [Agents -> AgentStates],
         \A i \in Agents : i \notin Ready => state'[i] = state[i],
         \A i \in Ready : state'[i] \notin {"idle", "error"}
  PROVE  Ready \subseteq Ready' /\ StatesOK' /\ ScansOK'
<1>1. Ready \subseteq Ready'
  BY ReadyKept DEF Ready, HasStarted, At
<1>2. StatesOK'
  BY StatesKept DEF Inv
<1>3. ScansOK'
  BY DEF ScansOK, Inv
<1> QED  BY <1>1, <1>2, <1>3

LEMMA CallKeeps ==
  ASSUME Inv, NEW c \in Calls, NEW fr, CallStep(c, fr),
         fr \in CallFrame, fr.queue \in Seq(Ready), fr.at = "handling" => fr.queue # <<>>,
         UNCHANGED <<scan, agents, subs, stopping>>, PlainOK',
         state' \in [Agents -> AgentStates],
         \A i \in Agents : i \notin Ready => state'[i] = state[i],
         \A i \in Ready : state'[i] \notin {"idle", "error"},
         BusyIsWorked'
  PROVE  Inv'
<1>1. Ready \subseteq Ready' /\ StatesOK' /\ ScansOK'
  BY ReadySteps
<1>2. call' = [call EXCEPT ![c] = fr]
  BY DEF CallStep
<1>3. CallsOK'
  BY <1>2 DEF CallsOK, Inv
<1>4. HandedOut'
  <2>1. fr.queue \in Seq(Ready')  BY <1>1, SeqMono
  <2>2. \A d \in Calls : call'[d].queue \in Seq(Ready')
    BY <1>1, <1>2, <2>1, HandedKept DEF Inv, CallsOK
  <2>3. \A s \in Scans : At(s, "stop")' => scan'[s].who \in Ready'
    BY <1>1, HandedKept DEF Inv, At
  <2> QED  BY <1>1, <2>2, <2>3, HandedKept DEF HandedOut, Inv
<1> QED  BY <1>1, <1>3, <1>4 DEF Inv

\* What a handler found in the queue of a call is ready, and the queue's rest.
LEMMA QueueReady ==
  ASSUME Inv, NEW c \in Calls
  PROVE  /\ call[c] \in CallFrame /\ call[c].queue \in Seq(Ready)
         /\ call[c].queue # <<>> => /\ Head(call[c].queue) \in Ready
                                    /\ Head(call[c].queue) \in Agents
                                    /\ Tail(call[c].queue) \in Seq(Ready)
                                    /\ Tail(call[c].queue) \in Seq(Agents)
<1>1. call[c] \in CallFrame /\ call[c].queue \in Seq(Ready)
  BY DEF Inv, CallsOK, HandedOut
<1>2. \A q \in Seq(Ready) : q \in Seq(Agents)
  BY ReadyAgents, SeqMono
<1> QED  BY <1>1, <1>2, ReadyAgents, SeqOps

LEMMA CallBegins ==
  ASSUME Inv, NEW c \in Calls, NEW t \in Topics, Dispatch(c, t) \/ Request(c, t)
  PROVE  Inv'
<1>1. \A x \in Topics : subs[x] \in Seq(Ready)
  BY DEF Inv, HandedOut
<1>2. Broadcast \in Topics /\ Wildcard \in Topics
  BY RuntimeAssumption
<1>3. Handlers(t) \in Seq(Ready)
  <2>1. (IF t # Broadcast THEN subs[Broadcast] ELSE <<>>) \in Seq(Ready)  BY <1>1, <1>2
  <2>2. (IF t # Wildcard THEN subs[Wildcard] ELSE <<>>) \in Seq(Ready)  BY <1>1, <1>2
  <2> QED  BY <1>1, <2>1, <2>2, ConcatProperties DEF Handlers
<1>4. \E a \in {"deliver", "done"}, b \in BOOLEAN, q \in Seq(Ready) :
        CallStep(c, [at |-> a, timed |-> b, queue |-> q])
  <2>0. <<>> \in Seq(Ready)  OBVIOUS
  <2>1. CASE Dispatch(c, t)
    <3>1. CASE CallStep(c, [at |-> "done", timed |-> FALSE, queue |-> <<>>])
      BY <2>0, <3>1
    <3>2. CASE CallStep(c, [at |-> "deliver", timed |-> FALSE, queue |-> Handlers(t)])
      BY <1>3, <3>2
    <3> QED  BY <2>1, <3>1, <3>2 DEF Dispatch
  <2>2. CASE Request(c, t)
    <3> DEFINE hs == IF subs[t] # <<>> THEN subs[t] ELSE subs[Broadcast]
    <3>1. hs \in Seq(Ready)  BY <1>1, <1>2
    <3>2. CASE hs # <<>>
      <4>1. <<Head(hs)>> \in Seq(Ready)  BY <3>1, <3>2, SeqOps
      <4>2. CallStep(c, [at |-> "deliver", timed |-> TRUE, queue |-> <<Head(hs)>>])
        BY <2>2, <3>2 DEF Request
      <4> QED  BY <4>1, <4>2
    <3>3. CASE hs = <<>>
      <4>1. CallStep(c, [at |-> "done", timed |-> TRUE, queue |-> <<>>])
        BY <2>2, <3>3 DEF Request
      <4> QED  BY <2>0, <4>1
    <3> QED  BY <3>2, <3>3
  <2> QED  BY <2>1, <2>2
<1>frame. PICK a \in {"deliver", "done"}, b \in BOOLEAN, q \in Seq(Ready) :
        CallStep(c, [at |-> a, timed |-> b, queue |-> q])
  BY <1>4
<1> DEFINE fr == [at |-> a, timed |-> b, queue |-> q]
<1>5. /\ fr \in CallFrame /\ fr.queue \in Seq(Ready) /\ fr.at # "handling"
      /\ CallStep(c, fr)
  <2>1. q \in Seq(Agents)  BY SeqMono, ReadyAgents
  <2> QED  BY <1>frame, <2>1 DEF CallFrame
<1> HIDE DEF fr
<1>6. /\ UNCHANGED <<state, scan, agents, subs, stopping>> /\ PlainOK'
      /\ call[c].at = "new"
  BY DEF Dispatch, Request, Loader, Inv, PlainOK
<1>7. state \in [Agents -> AgentStates] /\ \A i \in Ready : state[i] \notin {"idle", "error"}
  BY DEF Inv, StatesOK, Ready, HasStarted
<1>8. BusyIsWorked'
  BY <1>5, <1>6 DEF BusyIsWorked, Handles, CallStep, Inv, CallsOK
<1> QED  BY <1>5, <1>6, <1>7, <1>8, CallKeeps

LEMMA DeliverKeeps ==
  ASSUME Inv, NEW c \in Calls, Deliver(c)
  PROVE  Inv'
<1> DEFINE i == Head(call[c].queue)
<1>1. /\ call[c] \in CallFrame /\ call[c].queue \in Seq(Ready) /\ call[c].queue # <<>>
      /\ call[c].at = "deliver" /\ i \in Ready /\ i \in Agents
      /\ Tail(call[c].queue) \in Seq(Ready) /\ Tail(call[c].queue) \in Seq(Agents)
  BY QueueReady DEF Deliver
<1>2. UNCHANGED <<scan, agents, subs, stopping>> /\ PlainOK'
  BY DEF Deliver, Loader, Inv, PlainOK
<1>3. state \in [Agents -> AgentStates] /\ \A j \in Ready : state[j] \notin {"idle", "error"}
  BY DEF Inv, StatesOK, Ready, HasStarted
<1>4. CASE IsRunning(i)
  <2> DEFINE fr == [call[c] EXCEPT !.at = "handling"]
  <2>1. CallStep(c, fr) /\ state' = [state EXCEPT ![i] = "busy"]
    BY <1>4 DEF Deliver
  <2>2. fr \in CallFrame /\ fr.queue = call[c].queue /\ fr.at = "handling"
    BY <1>1 DEF CallFrame
  <2>3. /\ state' \in [Agents -> AgentStates]
        /\ \A j \in Agents : j \notin Ready => state'[j] = state[j]
        /\ \A j \in Ready : state'[j] \notin {"idle", "error"}
    BY <1>1, <1>3, <2>1 DEF AgentStates
  <2>4. BusyIsWorked'
    <3> SUFFICES ASSUME NEW j \in Agents, state'[j] = "busy"
                 PROVE  \E d \in Calls : call'[d].at = "handling" /\ Head(call'[d].queue) = j
      BY DEF BusyIsWorked, Handles
    <3>1. call'[c] = fr /\ \A d \in Calls : d # c => call'[d] = call[d]
      BY <2>1 DEF CallStep, Inv, CallsOK
    <3>2. CASE j = i  BY <2>2, <3>1, <3>2
    <3>3. CASE j # i
      <4>1. PICK d \in Calls : Handles(d, j)
        BY <1>3, <2>1, <3>3 DEF BusyIsWorked, Inv
      <4>2. d # c  BY <1>1, <4>1 DEF Handles
      <4> QED  BY <3>1, <4>1, <4>2 DEF Handles
    <3> QED  BY <3>2, <3>3
  <2> HIDE DEF fr
  <2> QED  BY <1>1, <1>2, <2>1, <2>2, <2>3, <2>4, CallKeeps
<1>5. CASE ~IsRunning(i)
  <2> DEFINE fr == [call[c] EXCEPT !.queue = Tail(@)]
  <2>1. CallStep(c, fr) /\ UNCHANGED state
    BY <1>5 DEF Deliver
  <2>2. fr \in CallFrame /\ fr.queue = Tail(call[c].queue) /\ fr.at = "deliver"
    BY <1>1 DEF CallFrame
  <2>3. BusyIsWorked'
    BY <1>1, <2>1, <2>2 DEF BusyIsWorked, Handles, CallStep, Inv, CallsOK
  <2> HIDE DEF fr
  <2> QED  BY <1>1, <1>2, <1>3, <2>1, <2>2, <2>3, CallKeeps
<1> QED  BY <1>4, <1>5

LEMMA HandlerEnds ==
  ASSUME Inv, NEW c \in Calls, Handled(c) \/ TimesOut(c)
  PROVE  Inv'
<1> DEFINE i  == Head(call[c].queue)
           f1 == [call[c] EXCEPT !.at = "deliver", !.queue = Tail(@)]
           f2 == [call[c] EXCEPT !.at = "done", !.queue = <<>>]
<1>1. /\ call[c] \in CallFrame /\ call[c].at = "handling" /\ i \in Ready /\ i \in Agents
      /\ Tail(call[c].queue) \in Seq(Ready) /\ Tail(call[c].queue) \in Seq(Agents)
  BY QueueReady DEF Handled, TimesOut, Inv, CallsOK
<1>2. /\ f1 \in CallFrame /\ f1.queue \in Seq(Ready) /\ f1.at # "handling"
      /\ f2 \in CallFrame /\ f2.queue \in Seq(Ready) /\ f2.at # "handling"
  <2>1. f1 \in CallFrame /\ f1.queue = Tail(call[c].queue) /\ f1.at = "deliver"
    BY <1>1 DEF CallFrame
  <2>2. <<>> \in Seq(Ready) /\ <<>> \in Seq(Agents)  OBVIOUS
  <2>3. f2 \in CallFrame /\ f2.queue = <<>> /\ f2.at = "done"
    BY <1>1, <2>2 DEF CallFrame
  <2> QED  BY <1>1, <2>1, <2>2, <2>3
<1>3. PICK fr \in {f1, f2} : CallStep(c, fr)
  BY DEF Handled, TimesOut
<1>4. /\ UNCHANGED <<scan, agents, subs, stopping>> /\ PlainOK'
      /\ state' = Rested(i)
  BY DEF Handled, TimesOut, Loader, Inv, PlainOK
<1>5. state \in [Agents -> AgentStates] /\ \A j \in Ready : state[j] \notin {"idle", "error"}
  BY DEF Inv, StatesOK, Ready, HasStarted
<1>6. /\ state' \in [Agents -> AgentStates]
      /\ \A j \in Agents : j # i => state'[j] = state[j]
      /\ state'[i] = IF state[i] = "busy" THEN "running" ELSE state[i]
  BY <1>1, <1>4, <1>5 DEF Rested, AgentStates
<1>7. BusyIsWorked'
  <2> SUFFICES ASSUME NEW j \in Agents, state'[j] = "busy"
               PROVE  \E d \in Calls : call'[d].at = "handling" /\ Head(call'[d].queue) = j
    BY DEF BusyIsWorked, Handles
  <2>1. \A d \in Calls : d # c => call'[d] = call[d]
    BY <1>3 DEF CallStep, Inv, CallsOK
  <2>2. j # i /\ state[j] = "busy"  BY <1>6
  <2>3. PICK d \in Calls : Handles(d, j)  BY <2>2 DEF BusyIsWorked, Inv
  <2>4. d # c  BY <2>2, <2>3 DEF Handles
  <2> QED  BY <2>1, <2>3, <2>4 DEF Handles
<1>8. \A j \in Agents : j \notin Ready => state'[j] = state[j]
  BY <1>1, <1>6
<1>9. \A j \in Ready : state'[j] \notin {"idle", "error"}
  BY <1>5, <1>6, ReadyAgents
<1>10. fr \in CallFrame /\ fr.queue \in Seq(Ready) /\ fr.at # "handling"
  BY <1>2, <1>3
<1> QED  BY <1>3, <1>4, <1>6, <1>7, <1>8, <1>9, <1>10, CallKeeps

LEMMA ReturnKeeps ==
  ASSUME Inv, NEW c \in Calls, Return(c)
  PROVE  Inv'
<1> DEFINE fr == [call[c] EXCEPT !.at = "done"]
<1>1. call[c] \in CallFrame /\ call[c].queue \in Seq(Ready) /\ call[c].at = "deliver"
  BY QueueReady DEF Return
<1>2. fr \in CallFrame /\ fr.queue \in Seq(Ready) /\ fr.at = "done"
  BY <1>1 DEF CallFrame
<1>3. CallStep(c, fr) /\ UNCHANGED <<state, scan, agents, subs, stopping>> /\ PlainOK'
  BY DEF Return, Loader, Inv, PlainOK
<1>4. state \in [Agents -> AgentStates] /\ \A i \in Ready : state[i] \notin {"idle", "error"}
  BY DEF Inv, StatesOK, Ready, HasStarted
<1>5. BusyIsWorked'
  BY <1>1, <1>2, <1>3 DEF BusyIsWorked, Handles, CallStep, Inv, CallsOK
<1> HIDE DEF fr
<1> QED  BY <1>2, <1>3, <1>4, <1>5, CallKeeps

LEMMA StopKeeps ==
  ASSUME Inv, StopBegin \/ StopOne
  PROVE  Inv'
<1>1. UNCHANGED <<scan, call>> /\ PlainOK'
  BY DEF StopBegin, StopOne, Loader, Inv, PlainOK
<1>2. \A i \in Ready : i \in Agents /\ state[i] \notin {"idle", "error"}
  BY DEF Ready, HasStarted
<1>3. stopping # <<>> => Head(stopping) \in Ready
  BY SeqOps DEF Inv, HandedOut
<1>4. \/ UNCHANGED state
      \/ stopping # <<>> /\ state' = [state EXCEPT ![Head(stopping)] = "stopped"]
  BY DEF StopBegin, StopOne
<1>5. /\ state' \in [Agents -> AgentStates]
      /\ \A i \in Agents : i \notin Ready => state'[i] = state[i]
      /\ \A i \in Ready : state'[i] \notin {"idle", "error"}
      /\ \A i \in Agents : state'[i] = "busy" => state[i] = "busy"
  BY <1>2, <1>3, <1>4 DEF Inv, StatesOK, AgentStates
<1>6. Ready \subseteq Ready' /\ StatesOK' /\ ScansOK'
  BY <1>1, <1>5, ReadySteps
<1>7. \A S : <<>> \in Seq(S)
  OBVIOUS
<1>8. agents' \in Seq(Ready')
  <2>1. agents' \in {agents, <<>>}
    BY DEF StopBegin, StopOne, Loader
  <2> QED  BY <1>6, <1>7, <2>1, HandedKept DEF Inv
<1>9. subs' \in [Topics -> Seq(Ready')]
  <2>1. subs' \in {subs, NoSubscriptions}
    BY DEF StopBegin, StopOne
  <2>2. NoSubscriptions \in [Topics -> Seq(Ready')]
    BY <1>7 DEF NoSubscriptions
  <2> QED  BY <1>6, <2>1, <2>2, HandedKept DEF Inv
<1>10. stopping' \in Seq(Ready')
  <2>1. CASE StopBegin
    BY <1>6, <2>1, HandedKept, SeqOps DEF StopBegin, Inv
  <2>2. CASE StopOne
    BY <1>6, <2>2, HandedKept, SeqOps DEF StopOne, Inv
  <2> QED  BY <2>1, <2>2
<1>11. HandedOut'
  BY <1>1, <1>6, <1>8, <1>9, <1>10, HandedKept DEF HandedOut, At, Inv
<1>12. CallsOK' /\ BusyIsWorked'
  BY <1>1, <1>5 DEF CallsOK, BusyIsWorked, Handles, Inv
<1> QED  BY <1>1, <1>6, <1>11, <1>12 DEF Inv

LEMMA DirectoryKeeps ==
  ASSUME Inv, Directory \/ UNCHANGED vars
  PROVE  Inv'
<1>1. UNCHANGED <<state, agents, subs, stopping, scan, call>>
  BY DEF Directory, WriteFile, DeleteFile, vars, Loader
<1>2. PlainOK'
  <2>1. CASE UNCHANGED vars  BY <2>1 DEF vars, Inv, PlainOK
  <2>2. CASE Directory
    <3>1. PICK f \in Files : WriteFile(f) \/ DeleteFile(f)  BY <2>2 DEF Directory
    <3>2. CASE WriteFile(f)
      <4>1. clock + 1 \in 1..MaxTime /\ clock + 1 \in 0..MaxTime
        BY <3>2, RuntimeAssumption DEF WriteFile, Inv, PlainOK
      <4> QED  BY <3>2, <4>1 DEF WriteFile, Loader, Inv, PlainOK
    <3>3. CASE DeleteFile(f)
      <4>1. 0 \in 0..MaxTime  BY RuntimeAssumption
      <4> QED  BY <3>3, <4>1 DEF DeleteFile, Loader, Inv, PlainOK
    <3> QED  BY <3>1, <3>2, <3>3
  <2> QED  BY <2>1, <2>2
<1>3. Ready' = Ready
  BY <1>1 DEF Ready, HasStarted, At
<1>4. HandedOut'
  BY <1>1, <1>3 DEF HandedOut, At, Inv
<1>5. StatesOK' /\ ScansOK' /\ CallsOK' /\ BusyIsWorked'
  BY <1>1 DEF StatesOK, ScansOK, CallsOK, BusyIsWorked, Handles, At, Ahead, Inv
<1> QED  BY <1>2, <1>4, <1>5 DEF Inv

-----------------------------------------------------------------------------
(* Theorems *)

LEMMA InvInit == Init => Inv
<1> SUFFICES ASSUME Init PROVE Inv  OBVIOUS
<1>1. PlainOK
  <2>1. {0, 1} \subseteq 0..MaxTime /\ 1 \in 1..MaxTime  BY RuntimeAssumption
  <2>2. disk \in [Files -> 0..MaxTime]  BY <2>1 DEF Init
  <2> QED  BY <2>1, <2>2 DEF Init, PlainOK
<1>2. ScansOK
  BY NoScanOK DEF Init, ScansOK, ScanOK
<1>3. CallsOK /\ BusyIsWorked
  <2>1. <<>> \in Seq(Agents)  OBVIOUS
  <2> QED  BY <2>1 DEF Init, CallsOK, CallFrame, BusyIsWorked
<1>4. StatesOK
  BY DEF Init, StatesOK, AgentStates, At, NoScan
<1>5. HandedOut
  <2>1. <<>> \in Seq(Ready)  OBVIOUS
  <2> QED  BY <2>1 DEF Init, HandedOut, At, NoScan
<1> QED  BY <1>1, <1>2, <1>3, <1>4, <1>5 DEF Inv

LEMMA InvNext == Inv /\ [Next]_vars => Inv'
<1> SUFFICES ASSUME Inv, [Next]_vars PROVE Inv'  OBVIOUS
<1>1. CASE Directory \/ UNCHANGED vars
  BY <1>1, DirectoryKeeps
<1>2. CASE StartRuntime \/ \E r \in Reloads : Reload(r)
  BY <1>2, BeginKeeps
<1>3. ASSUME NEW s \in Scans, Scanning(s)
      PROVE  Inv'
  BY <1>3, VisitKeeps, UnloadKeeps, StartKeeps, LoadKeeps, ReturnToScan, EndScanKeeps,
     WireKeeps, EndWireKeeps DEF Scanning
<1>4. ASSUME NEW s \in Scans, Awaited(s)
      PROVE  Inv'
  BY <1>4, UnloadedKeeps, StartedKeeps, StartFailsKeeps DEF Awaited
<1>5. ASSUME NEW c \in Calls, Calling(c) \/ Delivering(c) \/ Handled(c) \/ TimesOut(c)
      PROVE  Inv'
  BY <1>5, CallBegins, DeliverKeeps, ReturnKeeps, HandlerEnds DEF Calling, Delivering
<1>6. CASE StopBegin \/ StopOne
  BY <1>6, StopKeeps
<1> QED  BY <1>1, <1>2, <1>3, <1>4, <1>5, <1>6 DEF Next

\* Inv is an inductive invariant.
LEMMA InvAlways == Spec => []Inv
  BY InvInit, InvNext, PTL DEF Spec

\* Every reachable state of loader, bus and runtime has its type, for any
\* directory, agents, reloads and calls.
THEOREM TypeCorrect == Spec => []TypeOK
<1>1. Inv => TypeOK
  <2> SUFFICES ASSUME Inv PROVE TypeOK  OBVIOUS
  <2>1. \A q \in Seq(Ready) : q \in Seq(Agents)
    BY ReadyAgents, SeqMono
  <2>2. agents \in Seq(Agents) /\ stopping \in Seq(Agents) /\ subs \in [Topics -> Seq(Agents)]
    BY <2>1 DEF Inv, HandedOut
  <2>3. \A s \in Scans : scan[s].at \in {"stop", "starting"} => scan[s].who # None
    BY NoneAssumption DEF Inv, ScansOK, ScanOK
  <2>4. \A s \in Scans : scan[s].at \in {"unload", "stop", "start", "starting"} =>
          scan[s].file # None
    BY RuntimeAssumption DEF Inv, ScansOK, ScanOK
  <2> QED  BY <2>2, <2>3, <2>4 DEF TypeOK, Inv, PlainOK, StatesOK, ScansOK, CallsOK
<1> QED  BY <1>1, InvAlways, PTL

\* No agent is left BUSY without a message being handled, however many messages,
\* timeouts and stops overlap.
THEOREM BusyMeansWorked == Spec => []BusyIsWorked
<1>1. Inv => BusyIsWorked  BY DEF Inv
<1> QED  BY <1>1, InvAlways, PTL

\* No agent is subscribed, or handed a message, before its start() has ended or
\* after it failed, however many reloads overlap.
THEOREM OnlyStartedWired == Spec => []WiredWasStarted
<1>1. Inv => WiredWasStarted
  <2> SUFFICES ASSUME Inv PROVE WiredWasStarted  OBVIOUS
  <2>1. \A q \in Seq(Ready) : \A k \in DOMAIN q : HasStarted(q[k])
    BY SeqOps DEF Ready
  <2> QED  BY <2>1 DEF WiredWasStarted, Inv, HandedOut
<1> QED  BY <1>1, InvAlways, PTL

\* An agent that was stopped, or whose start() failed, stays so.
THEOREM StoppedForGood == Spec => StoppedIsFinal
<1> DEFINE Kept == \A i \in Agents : state[i] \in {"stopped", "error"} => state'[i] = state[i]
<1>1. Inv /\ [Next]_vars => [Kept]_vars
  <2> SUFFICES ASSUME Inv, Next PROVE Kept
    BY DEF vars
  <2>1. /\ state \in [Agents -> AgentStates]
        /\ \A i \in Ready : i \in Agents /\ state[i] \notin {"idle", "error"}
    BY DEF Inv, StatesOK, Ready, HasStarted
  <2>2. CASE UNCHANGED state  BY <2>2
  <2>3. ASSUME NEW i \in Ready, state' = [state EXCEPT ![i] = "stopped"]
        PROVE  Kept
    BY <2>1, <2>3
  <2>4. ASSUME NEW s \in Scans, NEW n \in Names, Start(s, n)
        PROVE  Kept
    BY <2>1, <2>4, StartKeeps DEF Start
  <2>5. ASSUME NEW s \in Scans, StartFails(s)
        PROVE  Kept
    BY <2>1, <2>5, StartFailsKeeps DEF StartFails
  <2>6. ASSUME NEW c \in Calls, Deliver(c)
        PROVE  Kept
    BY <2>1, <2>6 DEF Deliver, IsRunning
  <2>7. ASSUME NEW c \in Calls, Handled(c) \/ TimesOut(c)
        PROVE  Kept
    BY <2>1, <2>7 DEF Handled, TimesOut, Rested
  <2>8. ASSUME NEW s \in Scans, Unloaded(s)
        PROVE  Kept
    <3>1. scan[s].who \in Ready  BY <2>8 DEF Unloaded, Inv, HandedOut
    <3> QED  BY <2>2, <2>3, <2>8, <3>1 DEF Unloaded
  <2>9. ASSUME StopOne
        PROVE  Kept
    <3>1. Head(stopping) \in Ready  BY <2>9, SeqOps DEF StopOne, Inv, HandedOut
    <3> QED  BY <2>2, <2>3, <2>9, <3>1 DEF StopOne
  <2>10. ASSUME NEW s \in Scans, Scanning(s)
         PROVE  Kept
    <3>1. CASE \E n \in Names : Start(s, n)  BY <2>4, <3>1
    <3>2. CASE ~\E n \in Names : Start(s, n)
      BY <2>2, <2>10, <3>2 DEF Scanning, Visit, Unload, Load, LoadFails, Record, EndScan,
         Wire, EndWire
    <3> QED  BY <3>1, <3>2
  <2>11. ASSUME NEW s \in Scans, Awaited(s)
         PROVE  Kept
    BY <2>2, <2>5, <2>8, <2>11 DEF Awaited, Started
  <2>12. ASSUME NEW c \in Calls, Calling(c) \/ Delivering(c)
         PROVE  Kept
    BY <2>2, <2>6, <2>12 DEF Calling, Delivering, Dispatch, Request, Return
  <2> QED
    BY <2>2, <2>7, <2>9, <2>10, <2>11, <2>12 DEF Next, Directory, WriteFile, DeleteFile,
       StartRuntime, Reload, StopBegin
<1>2. Spec => [][Kept]_vars
  BY <1>1, InvAlways, PTL DEF Spec
<1> QED  BY <1>2 DEF StoppedIsFinal

-----------------------------------------------------------------------------
(* Subscriptions of loaded agents *)

Working == {"scan", "unload", "stop", "start", "starting"}

\* Scan s, in frame fr, has still to wire the agent loaded under n; the first
\* scan wires whatever is loaded when it ends.
Owes(s, fr, n) ==
  \/ fr.at = "wire" /\ n \in Range(fr.wire)
  \/ fr.at \in Working /\ (s = Boot \/ n \in Range(fr.added) \cup Range(fr.updated))

Reached(i) == \/ i \in Range(subs[NameOf(i)])
              \/ \E s \in Scans : Owes(s, scan[s], NameOf(i))

\* No name is loaded twice, and a loaded agent that has no subscription is owed
\* one, unless a scan raised and left its agents as they were.
WireInv ==
  /\ \A k, l \in DOMAIN agents : NameOf(agents[k]) = NameOf(agents[l]) => k = l
  /\ (\A s \in Scans : ~At(s, "raised")) => \A i \in Range(agents) : Reached(i)

LEMMA RangeOps ==
  ASSUME NEW S, NEW q \in Seq(S)
  PROVE  /\ Range(<<>>) = {}
         /\ Range(q) \subseteq S
         /\ \A e \in S : Range(Append(q, e)) = Range(q) \cup {e}
         /\ \A r \in Seq(S) : Range(q \o r) = Range(q) \cup Range(r)
         /\ q # <<>> => Range(q) = {Head(q)} \cup Range(Tail(q))
<1>1. Range(<<>>) = {} /\ Range(q) \subseteq S
  BY DEF Range
<1>2. \A r \in Seq(S) : Range(q \o r) = Range(q) \cup Range(r)
  BY RangeConcatenation
<1>3. \A e \in S : Range(Append(q, e)) = Range(q) \cup {e}
  <2> TAKE e \in S
  <2>1. Append(q, e) = q \o <<e>> /\ <<e>> \in Seq(S)
    BY AppendIsConcat
  <2>2. Range(<<e>>) = {e}
    BY DEF Range
  <2> QED  BY <1>2, <2>1, <2>2
<1>4. q # <<>> => Range(q) = {Head(q)} \cup Range(Tail(q))
  <2> SUFFICES ASSUME q # <<>> PROVE Range(q) = {Head(q)} \cup Range(Tail(q))
    OBVIOUS
  <2>1. q = <<Head(q)>> \o Tail(q) /\ <<Head(q)>> \in Seq(S) /\ Tail(q) \in Seq(S)
    OBVIOUS
  <2>2. Range(<<Head(q)>>) = {Head(q)}
    BY DEF Range
  <2>3. Range(<<Head(q)>> \o Tail(q)) = Range(<<Head(q)>>) \cup Range(Tail(q))
    BY <2>1, RangeConcatenation
  <2> QED  BY <2>1, <2>2, <2>3
<1> QED  BY <1>1, <1>2, <1>3, <1>4

\* What is left of a sequence without its j-th element, and where it was.
LEMMA ConcatAt ==
  ASSUME NEW S, NEW a \in Seq(S), NEW b \in Seq(S)
  PROVE  /\ Len(a \o b) = Len(a) + Len(b) /\ DOMAIN (a \o b) = 1..(Len(a) + Len(b))
         /\ \A k \in 1..(Len(a) + Len(b)) : (a \o b)[k] = IF k <= Len(a) THEN a[k] ELSE b[k - Len(a)]
  OBVIOUS

LEMMA RemoveOps ==
  ASSUME NEW S, NEW q \in Seq(S), NEW j \in 1..Len(q)
  PROVE  /\ Range(RemoveAt(q, j)) \subseteq Range(q)
         /\ (\A k, l \in DOMAIN q : NameOf(q[k]) = NameOf(q[l]) => k = l) =>
              \A k, l \in DOMAIN RemoveAt(q, j) :
                NameOf(RemoveAt(q, j)[k]) = NameOf(RemoveAt(q, j)[l]) => k = l
<1> DEFINE From(k) == IF k < j THEN k ELSE k + 1
           p == RemoveAt(q, j)
<1>1. Len(q) \in Nat /\ j \in Nat /\ 1 <= j /\ j <= Len(q) /\ DOMAIN q = 1..Len(q)
  OBVIOUS
<1>2. ASSUME NEW a \in Seq(S), NEW b \in Seq(S),
             a = SubSeq(q, 1, j - 1), b = SubSeq(q, j + 1, Len(q))
      PROVE  /\ DOMAIN (a \o b) = 1..(Len(q) - 1)
             /\ \A k \in 1..(Len(q) - 1) : (a \o b)[k] = q[From(k)]
  <2>0. /\ \A k \in 1..(j - 1) : q[k] \in S
        /\ \A k \in (j + 1)..Len(q) : q[k] \in S
    BY <1>1
  <2>1. Len(a) = j - 1 /\ \A k \in 1..(j - 1) : a[k] = q[k]
    BY <1>1, <1>2, <2>0, SubSeqProperties
  <2>2. Len(b) = Len(q) - j /\ \A k \in 1..(Len(q) - j) : b[k] = q[k + j]
    <3>1. /\ Len(b) = IF j + 1 <= Len(q) THEN Len(q) - (j + 1) + 1 ELSE 0
          /\ \A k \in 1..(Len(q) - (j + 1) + 1) : b[k] = q[(j + 1) + k - 1]
      BY <1>1, <1>2, <2>0, SubSeqProperties
    <3>2. \A k \in 1..(Len(q) - j) : (j + 1) + k - 1 = k + j
      BY <1>1
    <3>3. Len(q) - (j + 1) + 1 = Len(q) - j
      BY <1>1
    <3>4. Len(b) = Len(q) - j
      <4>1. CASE j < Len(q)
        <5>1. j + 1 <= Len(q)
          BY <1>1, <4>1
        <5> QED  BY <3>1, <3>3, <5>1
      <4>2. CASE j = Len(q)
        <5>1. ~(j + 1 <= Len(q)) /\ Len(q) - j = 0
          BY <1>1, <4>2
        <5> QED  BY <3>1, <5>1
      <4>3. j < Len(q) \/ j = Len(q)
        <5>1. \A m, n \in Nat : m <= n => m < n \/ m = n
          OBVIOUS
        <5> QED  BY <1>1, <5>1
      <4> QED  BY <4>1, <4>2, <4>3
    <3>5. \A k \in 1..(Len(q) - j) : b[k] = q[(j + 1) + k - 1]
      BY <3>1, <3>3
    <3> QED  BY <3>2, <3>4, <3>5
  <2>3. Len(a) + Len(b) = Len(q) - 1
    BY <1>1, <2>1, <2>2
  <2>4. DOMAIN (a \o b) = 1..(Len(q) - 1)
    BY <2>3, ConcatAt
  <2>5. ASSUME NEW k \in 1..(Len(q) - 1) PROVE (a \o b)[k] = q[From(k)]
    <3>1. (a \o b)[k] = IF k <= Len(a) THEN a[k] ELSE b[k - Len(a)]
      BY <2>3, ConcatAt
    <3>2. CASE k < j
      BY <1>1, <2>1, <3>1, <3>2
    <3>3. CASE ~(k < j)
      <4>1. k - Len(a) \in 1..(Len(q) - j) /\ (k - Len(a)) + j = k + 1 /\ ~(k <= Len(a))
        BY <1>1, <2>1, <3>3
      <4> QED  BY <2>2, <3>1, <3>3, <4>1
    <3> QED  BY <3>2, <3>3
  <2> QED  BY <2>4, <2>5
<1>3. SubSeq(q, 1, j - 1) \in Seq(S) /\ SubSeq(q, j + 1, Len(q)) \in Seq(S)
  <2>1. \A k \in 1..(j - 1) : q[k] \in S  BY <1>1
  <2>2. \A k \in (j + 1)..Len(q) : q[k] \in S  BY <1>1
  <2> QED  BY <1>1, <2>1, <2>2, SubSeqProperties
<1>4. /\ DOMAIN p = 1..(Len(q) - 1)
      /\ \A k \in 1..(Len(q) - 1) : p[k] = q[From(k)]
  BY <1>2, <1>3 DEF RemoveAt
<1>5. \A k \in 1..(Len(q) - 1) : From(k) \in DOMAIN q
  BY <1>1
<1>6. \A k, l \in 1..(Len(q) - 1) : From(k) = From(l) => k = l
  BY <1>1
<1> HIDE DEF p, From
<1>7. Range(p) \subseteq Range(q)
  BY <1>4, <1>5 DEF Range
<1>8. (\A k, l \in DOMAIN q : NameOf(q[k]) = NameOf(q[l]) => k = l) =>
         \A k, l \in DOMAIN p : NameOf(p[k]) = NameOf(p[l]) => k = l
  BY <1>4, <1>5, <1>6
<1> QED  BY <1>7, <1>8 DEF p

\* Names stay loaded once; what is put in or left was there, and the name of
\* the agent put in is its own.
LEMMA PutPop ==
  ASSUME agents \in Seq(Agents),
         \A k, l \in DOMAIN agents : NameOf(agents[k]) = NameOf(agents[l]) => k = l
  PROVE  /\ \A i \in Agents :
              /\ Range(Put(i)) \subseteq Range(agents) \cup {i}
              /\ \A k, l \in DOMAIN Put(i) : NameOf(Put(i)[k]) = NameOf(Put(i)[l]) => k = l
         /\ \A n \in Names :
              /\ Range(Pop(n)) \subseteq Range(agents)
              /\ \A k, l \in DOMAIN Pop(n) : NameOf(Pop(n)[k]) = NameOf(Pop(n)[l]) => k = l
<1>1. \A n \in Names : Loaded(n) => IndexOf(n) \in DOMAIN agents /\ NameOf(agents[IndexOf(n)]) = n
  BY DEF Loaded, IndexOf
<1>2. ASSUME NEW i \in Agents
      PROVE  /\ Range(Put(i)) \subseteq Range(agents) \cup {i}
             /\ \A k, l \in DOMAIN Put(i) : NameOf(Put(i)[k]) = NameOf(Put(i)[l]) => k = l
  <2>1. NameOf(i) \in Names
    BY DEF Agents, NameOf
  <2>2. CASE Loaded(NameOf(i))
    <3>1. Put(i) = [agents EXCEPT ![IndexOf(NameOf(i))] = i]
      BY <2>2 DEF Put
    <3>2. IndexOf(NameOf(i)) \in DOMAIN agents /\ NameOf(agents[IndexOf(NameOf(i))]) = NameOf(i)
      BY <1>1, <2>1, <2>2
    <3> QED  BY <3>1, <3>2 DEF Range
  <2>3. CASE ~Loaded(NameOf(i))
    <3>1. Put(i) = Append(agents, i) /\ \A k \in DOMAIN agents : NameOf(agents[k]) # NameOf(i)
      BY <2>3 DEF Put, Loaded
    <3>2. Range(Put(i)) = Range(agents) \cup {i}
      BY <3>1, RangeOps
    <3>3. /\ DOMAIN Put(i) = 1..(Len(agents) + 1) /\ DOMAIN agents = 1..Len(agents)
          /\ \A k \in 1..Len(agents) : Put(i)[k] = agents[k]
          /\ Put(i)[Len(agents) + 1] = i
      BY <3>1, AppendProperties
    <3> QED  BY <3>1, <3>2, <3>3
  <2> QED  BY <2>2, <2>3
<1>3. ASSUME NEW n \in Names
      PROVE  /\ Range(Pop(n)) \subseteq Range(agents)
             /\ \A k, l \in DOMAIN Pop(n) : NameOf(Pop(n)[k]) = NameOf(Pop(n)[l]) => k = l
  <2>1. CASE ~Loaded(n)
    BY <2>1 DEF Pop
  <2>2. CASE Loaded(n)
    <3>1. Pop(n) = RemoveAt(agents, IndexOf(n)) /\ IndexOf(n) \in 1..Len(agents)
      BY <1>1, <2>2 DEF Pop
    <3> QED  BY <3>1, RemoveOps
  <2> QED  BY <2>1, <2>2
<1> QED  BY <1>2, <1>3

\* A step of scan s keeps the subscriptions, or what is owed, of the agents that
\* stay loaded.
LEMMA WiredStep ==
  ASSUME WireInv, NEW s \in Scans, \A r \in Scans : r # s => scan'[r] = scan[r],
         scan[s].at # "raised",
         \A k, l \in DOMAIN agents' : NameOf(agents'[k]) = NameOf(agents'[l]) => k = l,
         scan'[s].at # "raised" =>
           \A i \in Range(agents') :
             \/ Reached(i)'
             \/ /\ i \in Range(agents)
                /\ i \in Range(subs[NameOf(i)]) => i \in Range(subs'[NameOf(i)])
                /\ Owes(s, scan[s], NameOf(i)) => Reached(i)'
  PROVE  WireInv'
<1> SUFFICES ASSUME \A r \in Scans : ~At(r, "raised")', NEW i \in Range(agents')
             PROVE  Reached(i)'
  BY DEF WireInv
<1>1. \A r \in Scans : ~At(r, "raised")
  BY DEF At
<1>2. scan'[s].at # "raised"
  BY DEF At
<1>3. CASE i \in Range(agents) /\ i \in Range(subs[NameOf(i)])
  BY <1>2, <1>3 DEF Reached
<1>4. ASSUME i \in Range(agents), NEW r \in Scans, Owes(r, scan[r], NameOf(i))
      PROVE  Reached(i)'
  <2>1. CASE r = s
    BY <1>2, <1>4, <2>1
  <2>2. CASE r # s
    BY <1>4, <2>2 DEF Reached
  <2> QED  BY <2>1, <2>2
<1> QED  BY <1>1, <1>2, <1>3, <1>4 DEF WireInv, Reached

LEMMA FrameStep ==
  ASSUME Inv, NEW s \in Scans, NEW fr, Step(s, fr)
  PROVE  scan'[s] = fr /\ \A r \in Scans : r # s => scan'[r] = scan[r]
  BY DEF Inv, ScansOK, Step

LEMMA AgentsTyped ==
  ASSUME Inv
  PROVE  /\ agents \in Seq(Agents) /\ subs \in [Topics -> Seq(Agents)]
         /\ Range(agents) \subseteq Agents
         /\ \A i \in Agents : NameOf(i) \in Names
<1>1. agents \in Seq(Agents) /\ subs \in [Topics -> Seq(Agents)]
  BY ReadyAgents, SeqMono DEF Inv, HandedOut
<1>2. Range(agents) \subseteq Agents
  BY <1>1, RangeOps
<1> QED  BY <1>1, <1>2 DEF Agents, NameOf

\* A step of one scan that leaves agents and subscriptions alone.
LEMMA WiredQuiet ==
  ASSUME Inv, WireInv, NEW s \in Scans, NEW fr, Step(s, fr), UNCHANGED <<agents, subs>>,
         scan[s].at # "raised",
         fr.at # "raised" =>
           \A i \in Range(agents) : Owes(s, scan[s], NameOf(i)) =>
             Owes(s, fr, NameOf(i)) \/ i \in Range(subs[NameOf(i)])
  PROVE  WireInv'
<1>1. scan'[s] = fr /\ \A r \in Scans : r # s => scan'[r] = scan[r]
  BY FrameStep
<1>2. \A k, l \in DOMAIN agents' : NameOf(agents'[k]) = NameOf(agents'[l]) => k = l
  BY DEF WireInv
<1>3. scan'[s].at # "raised" =>
        \A i \in Range(agents') :
          /\ i \in Range(agents)
          /\ i \in Range(subs[NameOf(i)]) => i \in Range(subs'[NameOf(i)])
          /\ Owes(s, scan[s], NameOf(i)) => Reached(i)'
  BY <1>1 DEF Reached
<1> QED  BY <1>1, <1>2, <1>3, WiredStep

LEMMA VisitWired ==
  ASSUME Inv, WireInv, NEW s \in Scans, NEW f \in Files, Visit(s, f)
  PROVE  WireInv'
<1> DEFINE left    == [scan[s] EXCEPT !.todo = @ \ {f}]
           changed == s # Boot /\ mtimes[f] # 0
           there   == [left EXCEPT !.at = "unload", !.file = f, !.seen = disk[f],
                             !.changed = changed,
                             !.old = IF changed THEN {n \in Names : sources[n] = f} ELSE {}]
<1>0. scan[s] \in ScanFrame /\ scan[s].at = "scan" /\ UNCHANGED <<agents, subs>>
  BY FrameOf DEF Inv, Visit, At, Loader
<1>1. /\ left.at = "scan" /\ left.added = scan[s].added /\ left.updated = scan[s].updated
      /\ there.at = "unload" /\ there.added = scan[s].added /\ there.updated = scan[s].updated
  BY <1>0 DEF ScanFrame
<1>2. \A n : Owes(s, scan[s], n) => Owes(s, left, n) /\ Owes(s, there, n)
  BY <1>0, <1>1 DEF Owes, Working
<1>3. CASE Step(s, [NoScan EXCEPT !.at = "raised"])
  BY <1>0, <1>3, WiredQuiet DEF NoScan
<1>4. CASE Step(s, left)
  BY <1>0, <1>2, <1>4, WiredQuiet
<1>5. CASE Step(s, there)
  BY <1>0, <1>2, <1>5, WiredQuiet
<1> QED  BY <1>3, <1>4, <1>5 DEF Visit

\* A scan at work owes what it did, whatever it does next.
LEMMA WorkWired ==
  ASSUME Inv, WireInv, NEW s \in Scans,
         \/ Load(s) \/ LoadFails(s) \/ Record(s) \/ Unloaded(s) \/ StartFails(s)
         \/ \E n \in Names : Start(s, n)
  PROVE  WireInv'
<1>0. scan[s] \in ScanFrame /\ scan[s].at \in Working /\ UNCHANGED <<agents, subs>>
  BY FrameOf DEF Inv, Load, LoadFails, Record, Unloaded, StartFails, Start, At, Loader, Working
<1>1. PICK fr : /\ Step(s, fr) /\ fr.at \in Working
                /\ fr.added = scan[s].added /\ fr.updated = scan[s].updated
  <2>1. CASE Load(s)
    <3> DEFINE found == Classes[scan[s].file][disk[scan[s].file]]
               fr    == [scan[s] EXCEPT !.at = "start", !.batch = {n \in found : ~Loaded(n)}]
    <3>1. fr.at \in Working /\ fr.added = scan[s].added /\ fr.updated = scan[s].updated
      BY <1>0 DEF ScanFrame, Working
    <3> QED  BY <2>1, <3>1 DEF Load
  <2>2. CASE LoadFails(s) \/ Record(s)
    <3> DEFINE fr == [scan[s] EXCEPT !.at = "scan", !.file = None]
    <3>1. fr.at \in Working /\ fr.added = scan[s].added /\ fr.updated = scan[s].updated
      BY <1>0 DEF ScanFrame, Working
    <3> QED  BY <2>2, <3>1 DEF LoadFails, Record
  <2>3. CASE Unloaded(s)
    <3> DEFINE fr == [scan[s] EXCEPT !.at = "unload", !.who = None]
    <3>1. fr.at \in Working /\ fr.added = scan[s].added /\ fr.updated = scan[s].updated
      BY <1>0 DEF ScanFrame, Working
    <3> QED  BY <2>3, <3>1 DEF Unloaded
  <2>4. CASE StartFails(s)
    <3> DEFINE fr == [scan[s] EXCEPT !.at = "scan", !.file = None, !.who = None, !.batch = {}]
    <3>1. fr.at \in Working /\ fr.added = scan[s].added /\ fr.updated = scan[s].updated
      BY <1>0 DEF ScanFrame, Working
    <3> QED  BY <2>4, <3>1 DEF StartFails
  <2>5. ASSUME NEW n \in Names, Start(s, n)
        PROVE  \E fr : /\ Step(s, fr) /\ fr.at \in Working
                       /\ fr.added = scan[s].added /\ fr.updated = scan[s].updated
    <3> DEFINE i  == <<s, scan[s].file, n>>
               fr == [scan[s] EXCEPT !.at = "starting", !.who = i, !.batch = @ \ {n}]
    <3>1. fr.at \in Working /\ fr.added = scan[s].added /\ fr.updated = scan[s].updated
      BY <1>0 DEF ScanFrame, Working
    <3> QED  BY <2>5, <3>1 DEF Start
  <2> QED  BY <2>1, <2>2, <2>3, <2>4, <2>5
<1>2. \A n : Owes(s, scan[s], n) => Owes(s, fr, n)
  BY <1>0, <1>1 DEF Owes, Working
<1>3. scan[s].at # "raised"
  BY <1>0 DEF Working
<1> QED  BY <1>0, <1>1, <1>2, <1>3, WiredQuiet

\* A scan that begins owes nothing yet, or as the first one whatever is loaded.
LEMMA BeginWired ==
  ASSUME Inv, WireInv, StartRuntime \/ \E r \in Reloads : Reload(r)
  PROVE  WireInv'
<1> DEFINE fr == [NoScan EXCEPT !.at = "scan", !.files = Present, !.todo = Present]
<1>1. PICK s \in Scans : At(s, "new") /\ Step(s, fr) /\ UNCHANGED <<agents, subs>>
  BY DEF StartRuntime, Reload, Scans, Loader
<1>2. \A n : ~Owes(s, scan[s], n)
  BY <1>1 DEF Owes, Working, At
<1> QED  BY <1>1, <1>2, WiredQuiet DEF At

\* What a scan owes when it ends is in the list it then wires.
LEMMA EndScanWired ==
  ASSUME Inv, WireInv, NEW s \in Scans, EndScan(s)
  PROVE  WireInv'
<1> DEFINE fr == [NoScan EXCEPT !.at = "wire", !.files = scan[s].files, !.wire = ToWire(s)]
<1>0. scan[s] \in ScanFrame /\ scan[s].at = "scan" /\ UNCHANGED <<agents, subs>> /\ Step(s, fr)
  BY FrameOf DEF Inv, EndScan, At, Loader
<1>1. fr.at = "wire" /\ fr.wire = ToWire(s)
  BY DEF NoScan
<1>2. ASSUME NEW i \in Range(agents), Owes(s, scan[s], NameOf(i))
      PROVE  NameOf(i) \in Range(ToWire(s))
  <2>1. CASE s = Boot
    <3>1. PICK k \in DOMAIN agents : i = agents[k]
      BY DEF Range
    <3> QED  BY <2>1, <3>1 DEF ToWire, Range
  <2>2. CASE s # Boot
    <3>1. Range(scan[s].added \o scan[s].updated) = Range(scan[s].added) \cup Range(scan[s].updated)
      BY <1>0, RangeOps DEF ScanFrame
    <3> QED  BY <1>0, <1>2, <2>2, <3>1 DEF ToWire, Owes, Working
  <2> QED  BY <2>1, <2>2
<1> QED  BY <1>0, <1>1, <1>2, WiredQuiet DEF Owes

LEMMA EndWireWired ==
  ASSUME Inv, WireInv, NEW s \in Scans, EndWire(s)
  PROVE  WireInv'
<1>1. scan[s].at = "wire" /\ scan[s].wire = <<>> /\ UNCHANGED <<agents, subs>>
  BY DEF EndWire, At, Loader
<1>2. \A n : ~Owes(s, scan[s], n)
  BY <1>1, RangeOps DEF Owes, Working, Range
<1> QED  BY <1>1, <1>2, WiredQuiet DEF EndWire

\* The name wired, if an agent is loaded under it, is that of the agent found.
LEMMA WireWired ==
  ASSUME Inv, WireInv, NEW s \in Scans, Wire(s)
  PROVE  WireInv'
<1> DEFINE n  == Head(scan[s].wire)
           fr == [scan[s] EXCEPT !.wire = Tail(@)]
<1>0. /\ scan[s] \in ScanFrame /\ scan[s].at = "wire" /\ scan[s].wire # <<>>
      /\ UNCHANGED agents /\ Step(s, fr) /\ subs' = Subscribed(n)
  BY FrameOf DEF Inv, Wire, At, Loader
<1>1. fr.at = "wire" /\ fr.wire = Tail(scan[s].wire) /\ scan[s].wire \in Seq(Names)
  BY <1>0 DEF ScanFrame
<1>2. n \in Names /\ Range(scan[s].wire) = {n} \cup Range(fr.wire)
  BY <1>0, <1>1, RangeOps
<1>3. scan'[s] = fr /\ \A r \in Scans : r # s => scan'[r] = scan[r]
  BY <1>0, FrameStep
<1>4. \A i \in Agents : NameOf(i) \in Topics /\ NameOf(i) \in TopicsOf[NameOf(i)]
  BY RuntimeAssumption, AgentsTyped
<1>5. ASSUME NEW i \in Range(agents), i \in Range(subs[NameOf(i)])
      PROVE  i \in Range(subs'[NameOf(i)])
  <2>1. i \in Agents /\ subs[NameOf(i)] \in Seq(Agents)
    BY <1>4, AgentsTyped
  <2>2. CASE Loaded(n)
    <3>1. Get(n) \in Agents
      BY <1>2, <2>2, AgentsTyped, TableOps
    <3>2. Range(Append(subs[NameOf(i)], Get(n))) = Range(subs[NameOf(i)]) \cup {Get(n)}
      BY <2>1, <3>1, RangeOps
    <3>3. subs'[NameOf(i)] \in {subs[NameOf(i)], Append(subs[NameOf(i)], Get(n))}
      BY <1>0, <1>4, <2>1 DEF Subscribed
    <3> QED  BY <1>5, <3>2, <3>3
  <2>3. CASE ~Loaded(n)
    BY <1>0, <1>4, <1>5, <2>1, <2>3 DEF Subscribed
  <2> QED  BY <2>2, <2>3
<1>6. ASSUME NEW i \in Range(agents), NameOf(i) = n
      PROVE  i \in Range(subs'[n])
  <2>1. PICK k \in DOMAIN agents : i = agents[k]
    BY DEF Range
  <2>2. Loaded(n) /\ IndexOf(n) \in DOMAIN agents /\ NameOf(agents[IndexOf(n)]) = n
    BY <1>6, <2>1 DEF Loaded, IndexOf
  <2>3. Get(n) = i
    BY <1>6, <2>1, <2>2 DEF Get, WireInv
  <2>4. i \in Agents /\ n \in Topics /\ n \in TopicsOf[n] /\ subs[n] \in Seq(Agents)
    BY <1>4, <1>6, AgentsTyped
  <2>5. subs'[n] = Append(subs[n], i)
    BY <1>0, <2>2, <2>3, <2>4 DEF Subscribed
  <2> QED  BY <2>4, <2>5, RangeOps
<1>7. ASSUME NEW i \in Range(agents), Owes(s, scan[s], NameOf(i))
      PROVE  Reached(i)'
  <2>1. NameOf(i) \in Range(scan[s].wire)
    BY <1>0, <1>7 DEF Owes, Working
  <2>2. CASE NameOf(i) = n
    BY <1>6, <2>2 DEF Reached
  <2>3. CASE NameOf(i) \in Range(fr.wire)
    BY <1>1, <1>3, <2>3 DEF Reached, Owes
  <2> QED  BY <1>2, <2>1, <2>2, <2>3
<1>8. \A k, l \in DOMAIN agents' : NameOf(agents'[k]) = NameOf(agents'[l]) => k = l
  BY <1>0 DEF WireInv
<1> HIDE DEF fr, n
<1>9. scan'[s].at # "raised" =>
        \A i \in Range(agents') :
          /\ i \in Range(agents)
          /\ i \in Range(subs[NameOf(i)]) => i \in Range(subs'[NameOf(i)])
          /\ Owes(s, scan[s], NameOf(i)) => Reached(i)'
  BY <1>0, <1>5, <1>7
<1>10. scan[s].at # "raised"
  BY <1>0
<1> QED  BY <1>3, <1>8, <1>9, <1>10, WiredStep

\* An agent taken out owes nothing to anybody.
LEMMA UnloadWired ==
  ASSUME Inv, WireInv, NEW s \in Scans, NEW n \in Names, Unload(s, n)
  PROVE  WireInv'
<1> DEFINE left  == [scan[s] EXCEPT !.old = @ \ {n}]
           there == [left EXCEPT !.at = "stop", !.who = Get(n)]
<1>0. /\ scan[s] \in ScanFrame /\ scan[s].at = "unload"
      /\ agents' = Pop(n) /\ UNCHANGED subs
  BY FrameOf DEF Inv, Unload, At
<1>1. PICK fr \in {left, there} : Step(s, fr)
  BY DEF Unload
<1>2. fr.at \in Working /\ fr.added = scan[s].added /\ fr.updated = scan[s].updated
  BY <1>0 DEF ScanFrame, Working
<1>3. scan'[s] = fr /\ \A r \in Scans : r # s => scan'[r] = scan[r]
  BY <1>1, FrameStep
<1>4. /\ Range(agents') \subseteq Range(agents)
      /\ \A k, l \in DOMAIN agents' : NameOf(agents'[k]) = NameOf(agents'[l]) => k = l
  BY <1>0, AgentsTyped, PutPop DEF WireInv
<1>5. ASSUME NEW i \in Range(agents'), Owes(s, scan[s], NameOf(i))
      PROVE  Reached(i)'
  <2>1. Owes(s, fr, NameOf(i))
    BY <1>0, <1>2, <1>5 DEF Owes, Working
  <2> QED  BY <1>3, <2>1 DEF Reached
<1>6. scan'[s].at # "raised" =>
        \A i \in Range(agents') :
          /\ i \in Range(agents)
          /\ i \in Range(subs[NameOf(i)]) => i \in Range(subs'[NameOf(i)])
          /\ Owes(s, scan[s], NameOf(i)) => Reached(i)'
  BY <1>0, <1>4, <1>5
<1>7. scan[s].at # "raised"
  BY <1>0
<1> QED  BY <1>3, <1>4, <1>6, <1>7, WiredStep

\* The agent put in is owed to by the scan that started it.
LEMMA StartedWired ==
  ASSUME Inv, WireInv, NEW s \in Scans, Started(s)
  PROVE  WireInv'
<1> DEFINE w  == scan[s].who
           n  == NameOf(w)
           fr == [scan[s] EXCEPT !.at = "start", !.who = None,
                      !.added   = IF scan[s].changed THEN @ ELSE Append(@, n),
                      !.updated = IF scan[s].changed THEN Append(@, n) ELSE @]
<1>0. /\ ScanOK(s, scan[s]) /\ scan[s] \in ScanFrame /\ scan[s].at = "starting"
      /\ agents' = Put(w) /\ UNCHANGED subs /\ Step(s, fr)
  BY FrameOf DEF Inv, Started, At
<1>1. w \in Agents /\ n \in Names
  BY <1>0, AgentsTyped DEF ScanOK
<1>2. /\ fr.at \in Working
      /\ Range(fr.added) \cup Range(fr.updated)
           = Range(scan[s].added) \cup Range(scan[s].updated) \cup {n}
  <2>1. scan[s].added \in Seq(Names) /\ scan[s].updated \in Seq(Names)
    BY <1>0 DEF ScanFrame
  <2>2. /\ Range(Append(scan[s].added, n)) = Range(scan[s].added) \cup {n}
        /\ Range(Append(scan[s].updated, n)) = Range(scan[s].updated) \cup {n}
    BY <1>1, <2>1, RangeOps
  <2>3. /\ fr.at = "start"
        /\ fr.added = IF scan[s].changed THEN scan[s].added ELSE Append(scan[s].added, n)
        /\ fr.updated = IF scan[s].changed THEN Append(scan[s].updated, n) ELSE scan[s].updated
    BY <1>0 DEF ScanFrame
  <2> QED  BY <2>2, <2>3 DEF Working
<1> HIDE DEF fr, n
<1>3. scan'[s] = fr /\ \A r \in Scans : r # s => scan'[r] = scan[r]
  BY <1>0, FrameStep
<1>4. /\ Range(agents') \subseteq Range(agents) \cup {w}
      /\ \A k, l \in DOMAIN agents' : NameOf(agents'[k]) = NameOf(agents'[l]) => k = l
  BY <1>0, <1>1, AgentsTyped, PutPop DEF WireInv
<1>5. ASSUME NEW i \in Range(agents'), Owes(s, scan[s], NameOf(i)) \/ NameOf(i) = n
      PROVE  Reached(i)'
  <2>1. Owes(s, fr, NameOf(i))
    BY <1>0, <1>2, <1>5 DEF Owes, Working
  <2> QED  BY <1>3, <2>1 DEF Reached
<1>6. scan'[s].at # "raised" =>
        \A i \in Range(agents') :
          \/ Reached(i)'
          \/ /\ i \in Range(agents)
             /\ i \in Range(subs[NameOf(i)]) => i \in Range(subs'[NameOf(i)])
             /\ Owes(s, scan[s], NameOf(i)) => Reached(i)'
  BY <1>0, <1>4, <1>5 DEF n
<1>7. scan[s].at # "raised"
  BY <1>0
<1> QED  BY <1>3, <1>4, <1>6, <1>7, WiredStep

\* stop() forgets the agents and their subscriptions in one step.
LEMMA StopWired ==
  ASSUME Inv, WireInv, StopBegin \/ StopOne
  PROVE  WireInv'
<1>1. UNCHANGED scan /\ (agents' = <<>> \/ UNCHANGED <<agents, subs>>)
  BY DEF StopBegin, StopOne, Loader
<1>2. CASE agents' = <<>>
  <2>1. Range(agents') = {} /\ DOMAIN agents' = {}
    BY <1>2 DEF Range
  <2> QED  BY <2>1 DEF WireInv
<1>3. CASE UNCHANGED <<agents, subs>>
  BY <1>1, <1>3 DEF WireInv, Reached, Owes, At
<1> QED  BY <1>1, <1>2, <1>3

LEMMA ElseWired ==
  ASSUME WireInv, UNCHANGED <<agents, subs, scan>>
  PROVE  WireInv'
  BY DEF WireInv, Reached, Owes, At

LEMMA WireInit == Init => WireInv
<1> SUFFICES ASSUME Init PROVE WireInv  OBVIOUS
<1>1. Range(agents) = {} /\ DOMAIN agents = {}
  BY DEF Init, Range
<1> QED  BY <1>1 DEF WireInv

LEMMA WireNext == Inv /\ WireInv /\ [Next]_vars => WireInv'
<1> SUFFICES ASSUME Inv, WireInv, [Next]_vars PROVE WireInv'  OBVIOUS
<1>1. CASE Directory \/ UNCHANGED vars
  BY <1>1, ElseWired DEF Directory, WriteFile, DeleteFile, vars, Loader
<1>2. CASE StartRuntime \/ \E r \in Reloads : Reload(r)
  BY <1>2, BeginWired
<1>3. ASSUME NEW s \in Scans, Scanning(s)
      PROVE  WireInv'
  BY <1>3, VisitWired, UnloadWired, WorkWired, EndScanWired, WireWired, EndWireWired DEF Scanning
<1>4. ASSUME NEW s \in Scans, Awaited(s)
      PROVE  WireInv'
  BY <1>4, WorkWired, StartedWired DEF Awaited
<1>5. ASSUME NEW c \in Calls, Calling(c) \/ Delivering(c) \/ Handled(c) \/ TimesOut(c)
      PROVE  WireInv'
  BY <1>5, ElseWired DEF Calling, Delivering, Dispatch, Request, Deliver, Return, Handled,
     TimesOut, Loader
<1>6. CASE StopBegin \/ StopOne
  BY <1>6, StopWired
<1> QED  BY <1>1, <1>2, <1>3, <1>4, <1>5, <1>6 DEF Next

\* Once no scan is under way and none has raised, every loaded agent is among
\* the subscribers of its name, however reloads, replacements and stops overlapped.
THEOREM LoadedMeansWired == Spec => []LoadedIsWired
<1>1. Inv /\ WireInv => LoadedIsWired
  <2> SUFFICES ASSUME WireInv, \A s \in Scans : scan[s].at \in {"new", "done"},
                      NEW k \in DOMAIN agents
               PROVE  agents[k] \in Range(subs[NameOf(agents[k])])
    BY DEF LoadedIsWired, Quiet
  <2>1. agents[k] \in Range(agents) /\ \A s \in Scans : ~At(s, "raised")
    BY DEF Range, At
  <2>2. ASSUME NEW s \in Scans, NEW n
        PROVE  ~Owes(s, scan[s], n)
    <3>1. scan[s].at \in {"new", "done"}
      OBVIOUS
    <3> QED  BY <3>1 DEF Owes, Working
  <2> QED  BY <2>1, <2>2 DEF WireInv, Reached
<1>2. Spec => []WireInv
  BY WireInit, WireNext, InvAlways, PTL DEF Spec
<1> QED  BY <1>1, <1>2, InvAlways, PTL
=============================================================================
