--------------------------- MODULE IpfsStore_proofs ---------------------------
(***************************************************************************)
(* Proofs about IpfsStore: its type correctness, that content pinned ahead *)
(* of every collection under way stays stored, that the store implements   *)
(* ContentStore, for any number of callers, workers, blocks and restarts;  *)
(* that pins.json holds the pins where one caller changes them, and that   *)
(* the counters are exact where one caller stores and collects.            *)
(***************************************************************************)
EXTENDS IpfsStore, FiniteSetTheorems, WellFoundedInduction, TLAPS

LEMMA AnyBlockType == AnyBlock \in Blocks
BY StoreAssumption DEF AnyBlock

LEMMA IdleFrameType == IdleFrame \in Frame
BY AnyBlockType DEF IdleFrame, Frame, Stats, NoStats, OpNames

\* Returning from a call leaves a frame that is idle.
LEMMA ReturnType ==
  ASSUME TypeOK, NEW t \in Callers,
         NEW o \in {"none", "ok", "failed", "full", "missing", "os_error"},
         Return(t, o)
  PROVE  /\ call' \in [Callers -> Frame]
         /\ call'[t].at = "idle"
         /\ \A u \in Callers \ {t} : call'[u] = call[u]
BY IdleFrameType DEF TypeOK, Return, Frame, IdleFrame

LEMMA GotoType ==
  ASSUME TypeOK, NEW t \in Callers, NEW p \in {"idle"} \cup Queued \cup Working,
         Goto(t, p)
  PROVE  /\ call' \in [Callers -> Frame]
         /\ call'[t] = [call[t] EXCEPT !.at = p]
         /\ \A u \in Callers \ {t} : call'[u] = call[u]
BY DEF TypeOK, Goto, Frame

LEMMA PutReturnsType ==
  ASSUME TypeOK, NEW t \in Callers, PutReturns(t)
  PROVE  /\ call' \in [Callers -> Frame]
         /\ call'[t].at \in {"idle", "chunk", "exists", "pin"}
         /\ call'[t].at # "idle" => call'[t].op = call[t].op
         /\ \A u \in Callers \ {t} : call'[u] = call[u]
<1>1. call[t] \in Frame
  BY DEF TypeOK
<1>2. CASE \E b \in call[t].todo :
        call' = [call EXCEPT ![t].at = "chunk", ![t].blk = b, ![t].todo = @ \ {b}]
  BY <1>1, <1>2 DEF TypeOK, Frame, Working
<1>3. CASE call' = [call EXCEPT ![t].at = "exists", ![t].blk = call[t].cid]
  <2>1. call[t].cid \in Blocks
    BY <1>1 DEF Frame
  <2> QED
    BY <1>1, <1>3, <2>1 DEF TypeOK, Frame, Queued
<1>4. CASE Return(t, "ok")
  BY <1>4, ReturnType
<1>5. CASE Goto(t, "pin")
  <2>1. call'[t] = [call[t] EXCEPT !.at = "pin"]
    BY <1>5, GotoType DEF Queued
  <2> QED
    BY <1>1, <1>5, <2>1, GotoType DEF Queued, Frame
<1> QED
  BY <1>2, <1>3, <1>4, <1>5 DEF PutReturns

LEMMA EnterType ==
  ASSUME TypeOK, NEW t \in Callers, NEW name \in OpNames, NEW b \in Blocks,
         NEW p \in Queued, NEW rest \in SUBSET Blocks, Enter(t, name, b, p, rest)
  PROVE  /\ call' \in [Callers -> Frame]
         /\ call[t].at = "idle"
         /\ call'[t].at = p /\ call'[t].op = name
         /\ \A u \in Callers \ {t} : call'[u] = call[u]
         /\ UnchangedBlocks /\ UnchangedPins
BY IdleFrameType DEF TypeOK, Enter, Frame, IdleFrame, Stats, NoStats

-----------------------------------------------------------------------------
LEMMA InitType == Init => TypeOK
BY IdleFrameType, StoreAssumption DEF Init, TypeOK, Stats, NoStats

LEMMA BeginType ==
  ASSUME TypeOK, NEW t \in Callers, Begin(t)
  PROVE  TypeOK'
<1> USE DEF OpNames, Queued, TypeOK, UnchangedBlocks, UnchangedPins, UnchangedLife
<1>1. CASE \E b \in Blocks \ Files : Add(t, b)
  BY <1>1, EnterType DEF Add
<1>2. CASE \E m \in Files : AddFile(t, m)
  <2>1. \A m \in Files : m \in Blocks /\ ChunksOf[m] \in SUBSET Blocks
    BY StoreAssumption
  <2> QED
    BY <1>2, <2>1, EnterType DEF AddFile
<1>3. CASE \E b \in Blocks : Get(t, b) \/ Pin(t, b) \/ Unpin(t, b)
  BY <1>3, EnterType DEF Get, Pin, Unpin
<1>4. CASE GC(t)
  BY <1>4, EnterType, AnyBlockType DEF GC
<1>5. CASE Stop(t)
  <2>1. Enter(t, "stop", AnyBlock, "close_blocks", {})
    BY <1>5 DEF Stop
  <2>2. call' \in [Callers -> Frame] /\ UnchangedBlocks /\ UnchangedPins
    BY <2>1, EnterType, AnyBlockType
  <2> QED
    BY <1>5, <2>2 DEF Stop
<1> QED
  BY <1>1, <1>2, <1>3, <1>4, <1>5 DEF Begin

LEMMA WorkType ==
  ASSUME TypeOK, NEW t \in Callers, Work(t)
  PROVE  TypeOK'
<1> USE DEF UnchangedBlocks, UnchangedPins, UnchangedLife, SaveStats
<1>0. call[t] \in Frame
  BY DEF TypeOK
<1>a. /\ call[t].blk \in Blocks /\ call[t].cid \in Blocks
      /\ call[t].todo \in SUBSET Blocks /\ call[t].snap \in SUBSET Blocks
      /\ call[t].seen \in Stats
  BY <1>0 DEF Frame
<1>1. CASE JobRaises(t)
  BY <1>1, ReturnType DEF JobRaises, Closed, Overtaken, TypeOK
<1>2. CASE CheckCapacity(t)
  <2>1. Return(t, "full") => call' \in [Callers -> Frame]
    BY ReturnType
  <2>2. Goto(t, "exists") => call' \in [Callers -> Frame]
    BY GotoType DEF Queued
  <2>3. (\E b \in call[t].todo :
          call' = [call EXCEPT ![t].at = "exists", ![t].blk = b, ![t].todo = @ \ {b}])
        => call' \in [Callers -> Frame]
    BY <1>0 DEF TypeOK, Frame, Queued
  <2>4. call' \in [Callers -> Frame]
    BY <1>2, <2>1, <2>2, <2>3 DEF CheckCapacity
  <2> QED
    BY <1>2, <2>4 DEF CheckCapacity, TypeOK
<1>3. CASE PutProbe(t)
  BY <1>3, <1>0, <1>a, ReturnType, GotoType, PutReturnsType DEF PutProbe, TypeOK, Queued, Working
<1>4. CASE PutWrite(t)
  BY <1>4, <1>0, <1>a, ReturnType, GotoType, PutReturnsType DEF PutWrite, TypeOK, Queued, Working
<1>5. CASE PutFails(t)
  BY <1>5, <1>0, <1>a, ReturnType, GotoType, PutReturnsType DEF PutFails, TypeOK, Queued, Working
<1>6. CASE PutCount(t)
  <2>1. SizeOf[call[t].blk] \in Nat
    BY <1>a, StoreAssumption
  <2>2. /\ stats' \in Stats
        /\ [call[t].seen EXCEPT !.bytes = stats.bytes + SizeOf[call[t].blk]] \in Stats
    BY <1>6, <1>a, <2>1 DEF PutCount, TypeOK, Stats
  <2> QED
    BY <1>6, <1>0, <2>2 DEF PutCount, TypeOK, Working, Frame
<1>7. CASE PutSave(t)
  BY <1>7, <1>0, <1>a, ReturnType, GotoType, PutReturnsType DEF PutSave, TypeOK, Queued, Working
<1>8. CASE PinInsert(t)
  BY <1>8, <1>0, <1>a, ReturnType, GotoType, PutReturnsType DEF PinInsert, TypeOK, Queued, Working
<1>9. CASE PinRemove(t)
  BY <1>9, <1>a, ReturnType, GotoType DEF PinRemove, TypeOK, Working
<1>10. CASE PinsDump(t)
  BY <1>10, <1>0, <1>a DEF PinsDump, TypeOK, Queued, Working, Frame
<1>11. CASE PinsWriteTmp(t)
  BY <1>11, <1>0, <1>a, ReturnType, GotoType, PutReturnsType DEF PinsWriteTmp, TypeOK, Queued, Working
<1>12. CASE PinsReplace(t)
  BY <1>12, <1>0, <1>a, ReturnType, GotoType, PutReturnsType DEF PinsReplace, TypeOK, Queued, Working
<1>27. CASE PinsNotSaved(t)
  BY <1>27, ReturnType DEF PinsNotSaved, TypeOK
<1>13. CASE Mark(t)
  BY <1>13, <1>0, <1>a DEF Mark, TypeOK, Queued, Working, Frame
<1>14. CASE Sweep(t)
  BY <1>14, <1>0, <1>a DEF Sweep, TypeOK, Queued, Working, Frame
<1>15. CASE DeleteUnlink(t)
  BY <1>15, <1>0, <1>a, ReturnType, GotoType, PutReturnsType DEF DeleteUnlink, TypeOK, Queued, Working
<1>16. CASE DeleteUncount(t)
  <2>1. SizeOf[call[t].blk] \in Nat
    BY <1>a, StoreAssumption
  <2>2. [call[t].seen EXCEPT !.blocks = Minus(stats.blocks, 1)] \in Stats
    BY <1>a DEF TypeOK, Stats, Minus
  <2> QED
    BY <1>16, <1>0, <2>2 DEF DeleteUncount, TypeOK, Working, Frame
<1>17. CASE DeleteStore(t)
  <2>1. SizeOf[call[t].blk] \in Nat
    BY <1>a, StoreAssumption
  <2>2. /\ stats' \in Stats
        /\ [blocks |-> 0, bytes |-> Minus(stats.bytes, SizeOf[call[t].blk])] \in Stats
    BY <1>17, <1>a, <2>1 DEF DeleteStore, TypeOK, Stats, Minus
  <2> QED
    BY <1>17, <1>0, <2>2 DEF DeleteStore, TypeOK, Working, Frame
<1>26. CASE PutTotal(t) \/ DeleteCut(t)
  <2>1. stats' \in Stats
    BY <1>26, <1>a DEF PutTotal, DeleteCut, TypeOK, Stats
  <2>2. NoStats \in Stats
    BY DEF NoStats, Stats
  <2> QED
    BY <1>26, <1>0, <2>1, <2>2 DEF PutTotal, DeleteCut, TypeOK, Working, Frame
<1>18. CASE DeleteSave(t)
  BY <1>18, <1>0, <1>a, ReturnType, GotoType, PutReturnsType DEF DeleteSave, TypeOK, Queued, Working
<1>19. CASE GCDone(t)
  BY <1>19, <1>0, <1>a, ReturnType, GotoType, PutReturnsType DEF GCDone, TypeOK, Queued, Working
<1>20. CASE GCSave(t)
  BY <1>20, <1>0, <1>a, ReturnType, GotoType, PutReturnsType DEF GCSave, TypeOK, Queued, Working
<1>21. CASE GetProbe(t)
  BY <1>21, <1>0, <1>a, ReturnType, GotoType, PutReturnsType DEF GetProbe, TypeOK, Queued, Working
<1>22. CASE GetRead(t)
  BY <1>22, <1>0, <1>a, ReturnType, GotoType, PutReturnsType DEF GetRead, TypeOK, Queued, Working
<1>23. CASE CloseBlocks(t)
  BY <1>23, <1>0, <1>a, ReturnType, GotoType, PutReturnsType DEF CloseBlocks, TypeOK, Queued, Working
<1>24. CASE ClosePins(t)
  BY <1>24, <1>0, <1>a, ReturnType, GotoType, PutReturnsType DEF ClosePins, TypeOK, Queued, Working
<1>25. CASE \E b \in Blocks : DeleteProbe(t, b)
  BY <1>25, <1>0, <1>a DEF DeleteProbe, TypeOK, Frame, Working
<1> QED
  BY <1>1, <1>2, <1>3, <1>4, <1>5, <1>6, <1>7, <1>8, <1>9, <1>10, <1>11, <1>12, <1>13, <1>14,
     <1>15, <1>16, <1>17, <1>18, <1>19, <1>20, <1>21, <1>22, <1>23, <1>24, <1>25,
     <1>26, <1>27 DEF Work

\* The type invariant of the store holds in every reachable state.
THEOREM TypeCorrect == Spec => []TypeOK
<1>1. TypeOK /\ [Next]_vars => TypeOK'
  <2> SUFFICES ASSUME TypeOK, [Next]_vars PROVE TypeOK'
    OBVIOUS
  <2>1. CASE UNCHANGED vars
    BY <2>1 DEF vars, TypeOK
  <2>2. ASSUME NEW t \in Callers, Begin(t) PROVE TypeOK'
    BY <2>2, BeginType
  <2>3. ASSUME NEW t \in Callers, Work(t) PROVE TypeOK'
    BY <2>3, WorkType
  <2>4. CASE Restart
    <3>1. stats' \in Stats /\ savedStats' \in Stats \cup {Corrupt, Missing}
      BY <2>4 DEF Restart, TypeOK, NoStats, Stats
    <3>2. boots' \in 1..MaxBoots
      BY <2>4, StoreAssumption DEF Restart, TypeOK
    <3> QED
      BY <2>4, <3>1, <3>2, IdleFrameType DEF Restart, TypeOK
  <2> QED
    BY <2>1, <2>2, <2>3, <2>4 DEF Next
<1> QED
  BY InitType, <1>1, PTL DEF Spec

-----------------------------------------------------------------------------
LEMMA InitCollection == Init => CollectionInv
BY DEF Init, CollectionInv, IdleFrame, GCPoints

\* A call that is neither entering nor inside gc keeps the invariant as long
\* as it keeps out of the points of gc.
LEMMA OtherCalls ==
  ASSUME TypeOK, CollectionInv, NEW t \in Callers,
         \A u \in Callers \ {t} : call'[u] = call[u],
         call'[t].at \notin GCPoints,
         call'[t].op = "gc" => call'[t].at = "idle"
  PROVE  CollectionInv'
BY DEF CollectionInv, GCPoints

LEMMA BeginCollection ==
  ASSUME TypeOK, CollectionInv, NEW t \in Callers, Begin(t)
  PROVE  CollectionInv'
<1>1. ASSUME NEW name \in OpNames \ {"gc"}, NEW b \in Blocks,
             NEW p \in Queued \ GCPoints, NEW rest \in SUBSET Blocks,
             Enter(t, name, b, p, rest)
      PROVE  CollectionInv'
  BY <1>1, EnterType, OtherCalls DEF Queued
<1>2. CASE \E b \in Blocks \ Files : Add(t, b)
  BY <1>2, <1>1 DEF Add, OpNames, Queued, GCPoints
<1>3. CASE \E m \in Files : AddFile(t, m)
  <2>1. \A m \in Files : m \in Blocks /\ ChunksOf[m] \in SUBSET Blocks
    BY StoreAssumption
  <2> QED
    BY <1>3, <2>1, <1>1 DEF AddFile, OpNames, Queued, GCPoints
<1>4. CASE \E b \in Blocks : Get(t, b) \/ Pin(t, b) \/ Unpin(t, b)
  BY <1>4, <1>1 DEF Get, Pin, Unpin, OpNames, Queued, GCPoints
<1>5. CASE GC(t)
  <2>1. /\ call'[t].at = "mark" /\ call'[t].op = "gc"
        /\ \A u \in Callers \ {t} : call'[u] = call[u]
    BY <1>5, EnterType, AnyBlockType DEF GC, OpNames, Queued
  <2> QED
    BY <2>1 DEF CollectionInv, GCPoints
<1>6. CASE Stop(t)
  BY <1>6, <1>1, AnyBlockType DEF Stop, OpNames, Queued, GCPoints
<1> QED
  BY <1>2, <1>3, <1>4, <1>5, <1>6 DEF Begin

\* How each step of a job changes the frame of its call.
LEMMA CollectionWork ==
  ASSUME TypeOK, CollectionInv, NEW t \in Callers, Work(t)
  PROVE  CollectionInv'
<1>0. call[t] \in Frame /\ (call[t].at \in GCPoints <=> call[t].op = "gc" /\ call[t].at # "idle")
  BY DEF TypeOK, CollectionInv
<1>1. ASSUME NEW o \in {"none", "ok", "failed", "full", "missing", "os_error"}, Return(t, o)
      PROVE  CollectionInv'
  BY <1>1, ReturnType, OtherCalls DEF GCPoints
<1>2. ASSUME NEW p \in (Queued \cup Working) \ GCPoints, Goto(t, p),
             call[t].op # "gc"
      PROVE  CollectionInv'
  <2>1. /\ call'[t] = [call[t] EXCEPT !.at = p]
        /\ \A u \in Callers \ {t} : call'[u] = call[u]
    BY <1>2, GotoType
  <2>2. call'[t].at = p /\ call'[t].op = call[t].op
    BY <2>1, <1>0 DEF Frame
  <2> QED
    BY <1>2, <2>1, <2>2, OtherCalls
<1>3. ASSUME call[t].op # "gc", PutReturns(t)
      PROVE  CollectionInv'
  BY <1>3, PutReturnsType, OtherCalls DEF GCPoints
<1>4. CASE JobRaises(t)
  BY <1>4, <1>1 DEF JobRaises, Closed, Overtaken
<1>5. CASE CheckCapacity(t)
  <2>1. call[t].op # "gc"
    BY <1>5, <1>0 DEF CheckCapacity, Start, GCPoints
  <2>2. CASE \E b \in call[t].todo :
          call' = [call EXCEPT ![t].at = "exists", ![t].blk = b, ![t].todo = @ \ {b}]
    <3>1. /\ call'[t].at = "exists" /\ call'[t].op = call[t].op
          /\ \A u \in Callers \ {t} : call'[u] = call[u]
      BY <2>2, <1>0 DEF TypeOK, Frame
    <3> QED
      BY <3>1, <2>1, OtherCalls DEF GCPoints
  <2> QED
    BY <1>5, <2>1, <2>2, <1>1, <1>2 DEF CheckCapacity, Queued, GCPoints
<1>6. CASE PutProbe(t)
  BY <1>6, <1>0, <1>2, <1>3 DEF PutProbe, Start, In, Working, GCPoints
<1>7. CASE PutWrite(t) \/ PutFails(t) \/ PutSave(t)
  BY <1>7, <1>0, <1>1, <1>2, <1>3 DEF PutWrite, PutFails, PutSave, In, Working, GCPoints
<1>19. CASE PutCount(t) \/ PutTotal(t)
  <2>1. /\ call'[t].at \in {"total", "save"} /\ call'[t].op = call[t].op
        /\ \A u \in Callers \ {t} : call'[u] = call[u]
    BY <1>19, <1>0 DEF PutCount, PutTotal, TypeOK, Frame
  <2> QED
    BY <1>19, <1>0, <2>1, OtherCalls DEF PutCount, PutTotal, In, GCPoints
<1>8. CASE PinInsert(t) \/ PinRemove(t)
  BY <1>8, <1>0, <1>1, <1>2 DEF PinInsert, PinRemove, Start, Working, GCPoints
<1>9. CASE PinsDump(t)
  <2>1. /\ call'[t].at = "tmp" /\ call'[t].op = call[t].op
        /\ \A u \in Callers \ {t} : call'[u] = call[u]
    BY <1>9, <1>0 DEF PinsDump, TypeOK, Frame
  <2> QED
    BY <1>9, <1>0, <2>1, OtherCalls DEF PinsDump, In, GCPoints
<1>10. CASE PinsWriteTmp(t) \/ PinsReplace(t) \/ PinsNotSaved(t)
  BY <1>10, <1>0, <1>1, <1>2 DEF PinsWriteTmp, PinsReplace, PinsNotSaved, In, Working, GCPoints
<1>11. CASE Mark(t)
  <2>1. /\ call[t].op = "gc" /\ call'[t] = [call[t] EXCEPT !.at = "sweep", !.snap = pins]
        /\ \A u \in Callers \ {t} : call'[u] = call[u]
    BY <1>11, <1>0 DEF Mark, Start, GCPoints, TypeOK
  <2>2. call'[t].at = "sweep" /\ call'[t].op = "gc"
    BY <2>1, <1>0 DEF Frame
  <2> QED
    BY <2>1, <2>2 DEF CollectionInv, GCPoints
<1>12. CASE Sweep(t)
  <2>1. /\ call[t].op = "gc"
        /\ call'[t] = [call[t] EXCEPT !.at = "victim", !.todo = blocks \ call[t].snap]
        /\ \A u \in Callers \ {t} : call'[u] = call[u]
    BY <1>12, <1>0 DEF Sweep, Start, GCPoints, TypeOK
  <2>2. /\ call'[t].at = "victim" /\ call'[t].op = "gc"
        /\ call'[t].todo = blocks \ call'[t].snap
    BY <2>1, <1>0 DEF Frame
  <2> QED
    BY <2>1, <2>2 DEF CollectionInv, GCPoints
<1>13. CASE \E b \in Blocks : DeleteProbe(t, b)
  <2> PICK b \in Blocks : DeleteProbe(t, b)
    BY <1>13
  <2>1. /\ call[t].op = "gc" /\ b \in call[t].todo /\ b \notin call[t].snap
        /\ call[t].todo \cap call[t].snap = {}
    BY <1>0 DEF DeleteProbe, In, GCPoints, CollectionInv
  <2>2. /\ call'[t].at \in {"unlink", "victim"} /\ call'[t].op = call[t].op
        /\ call'[t].blk = b /\ call'[t].todo = call[t].todo \ {b}
        /\ call'[t].snap = call[t].snap
        /\ \A u \in Callers \ {t} : call'[u] = call[u]
    BY <1>0 DEF DeleteProbe, TypeOK, Frame
  <2> QED
    BY <2>1, <2>2 DEF CollectionInv, GCPoints
<1>14. CASE DeleteUncount(t) \/ DeleteStore(t) \/ DeleteCut(t)
  <2>1. /\ call[t].op = "gc" /\ call[t].todo \cap call[t].snap = {}
    BY <1>14, <1>0 DEF DeleteUncount, DeleteStore, DeleteCut, In, GCPoints, CollectionInv
  <2>2. /\ call'[t].at \in {"store", "cut", "resave"} /\ call'[t].op = call[t].op
        /\ call'[t].todo = call[t].todo /\ call'[t].snap = call[t].snap
        /\ \A u \in Callers \ {t} : call'[u] = call[u]
    BY <1>14, <1>0 DEF DeleteUncount, DeleteStore, DeleteCut, TypeOK, Frame
  <2> QED
    BY <2>1, <2>2 DEF CollectionInv, GCPoints
<1>15. ASSUME NEW p \in {"uncount", "victim", "finish"}, Goto(t, p),
              call[t].at \in GCPoints \ {"mark", "sweep"}
       PROVE  CollectionInv'
  <2>1. /\ call[t].op = "gc" /\ call[t].todo \cap call[t].snap = {}
    BY <1>15, <1>0 DEF CollectionInv
  <2>2. /\ call'[t] = [call[t] EXCEPT !.at = p]
        /\ \A u \in Callers \ {t} : call'[u] = call[u]
    BY <1>15, GotoType DEF Working
  <2>3. /\ call'[t].at = p /\ call'[t].op = "gc"
        /\ call'[t].todo = call[t].todo /\ call'[t].snap = call[t].snap
    BY <2>1, <2>2, <1>0 DEF Frame
  <2> QED
    <3>1. p \in GCPoints \ {"mark", "sweep", "unlink"} /\ p # "idle"
      BY <1>15 DEF GCPoints
    <3>2. ASSUME NEW u \in Callers \ {t} PROVE call'[u] = call[u]
      BY <2>2
    <3> QED
      BY <2>1, <2>3, <3>1, <3>2 DEF CollectionInv
<1>16. CASE DeleteUnlink(t) \/ DeleteSave(t) \/ GCDone(t) \/ GCSave(t)
  BY <1>16, <1>1, <1>15
     DEF DeleteUnlink, DeleteSave, GCDone, GCSave, In, GCPoints
<1>17. CASE GetProbe(t) \/ GetRead(t)
  BY <1>17, <1>0, <1>1, <1>2 DEF GetProbe, GetRead, Start, In, Working, GCPoints
<1>18. CASE CloseBlocks(t) \/ ClosePins(t)
  BY <1>18, <1>0, <1>2 DEF CloseBlocks, ClosePins, Start, Queued, Working, GCPoints
<1> QED
  BY <1>4, <1>5, <1>6, <1>7, <1>8, <1>9, <1>10, <1>11, <1>12, <1>13, <1>14,
     <1>16, <1>17, <1>18, <1>19 DEF Work

\* No collection ever has a block of its own set of pins in hand.
THEOREM CollectionCorrect == Spec => []CollectionInv
<1>1. TypeOK /\ CollectionInv /\ [Next]_vars => CollectionInv'
  <2> SUFFICES ASSUME TypeOK, CollectionInv, [Next]_vars PROVE CollectionInv'
    OBVIOUS
  <2>1. CASE UNCHANGED vars
    BY <2>1 DEF vars, CollectionInv
  <2>2. CASE Restart
    BY <2>2 DEF Restart, CollectionInv, IdleFrame, GCPoints
  <2> QED
    BY <2>1, <2>2, BeginCollection, CollectionWork DEF Next
<1> QED
  BY InitCollection, TypeCorrect, <1>1, PTL DEF Spec

-----------------------------------------------------------------------------
(* The refinement of ContentStore *)

\* A step of call t changes what its own collection may discard, if anything.
LEMMA OthersDoomSame ==
  ASSUME NEW t \in Callers, \A u \in Callers \ {t} : call'[u] = call[u]
  PROVE  doomed' = [doomed EXCEPT ![t] =
                      IF Collecting(t)' THEN Blocks \ call'[t].snap ELSE {}]
BY DEF doomed, Collecting

LEMMA ReturnDooms ==
  ASSUME TypeOK, NEW t \in Callers, NEW o \in {"none", "ok", "failed", "full", "missing", "os_error"},
         Return(t, o)
  PROVE  doomed' = [doomed EXCEPT ![t] = {}]
<1>1. /\ call'[t].at = "idle"
      /\ \A u \in Callers \ {t} : call'[u] = call[u]
  BY ReturnType
<1>2. ~Collecting(t)'
  BY <1>1 DEF Collecting
<1> QED
  BY <1>1, <1>2, OthersDoomSame

\* A step that moves call t without entering or leaving a collection.
LEMMA MoveDooms ==
  ASSUME TypeOK, NEW t \in Callers,
         \A u \in Callers \ {t} : call'[u] = call[u],
         Collecting(t)' <=> Collecting(t),
         Collecting(t) => call'[t].snap = call[t].snap
  PROVE  doomed' = doomed
<1>1. doomed' = [doomed EXCEPT ![t] = doomed[t]]
  BY OthersDoomSame DEF doomed
<1> QED
  BY <1>1 DEF doomed

LEMMA GotoDooms ==
  ASSUME TypeOK, NEW t \in Callers, NEW p \in Queued \cup Working, Goto(t, p),
         (Collecting(t) /\ p # "mark") \/ call[t].op # "gc"
  PROVE  doomed' = doomed
<1>1. /\ call'[t] = [call[t] EXCEPT !.at = p]
      /\ \A u \in Callers \ {t} : call'[u] = call[u]
  BY GotoType
<1>2. call[t] \in Frame
  BY DEF TypeOK
<1>3. call'[t].at = p /\ call'[t].op = call[t].op /\ call'[t].snap = call[t].snap
  BY <1>1, <1>2 DEF Frame
<1>4. p # "idle"
  BY DEF Queued, Working
<1>5. Collecting(t)' <=> Collecting(t)
  BY <1>3, <1>4 DEF Collecting
<1> QED
  BY <1>1, <1>3, <1>5, MoveDooms

LEMMA PutReturnsDooms ==
  ASSUME TypeOK, NEW t \in Callers, call[t].op # "gc", PutReturns(t)
  PROVE  doomed' = doomed
<1>1. /\ ~Collecting(t)' /\ ~Collecting(t)
      /\ \A u \in Callers \ {t} : call'[u] = call[u]
  BY PutReturnsType DEF Collecting
<1> QED
  BY <1>1, MoveDooms

\* Calls begin outside a collection.
LEMMA BeginRefines ==
  ASSUME TypeOK, NEW t \in Callers, Begin(t)
  PROVE  UNCHANGED <<blocks, pins, doomed>>
<1>1. ASSUME NEW name \in OpNames, NEW b \in Blocks, NEW p \in Queued,
             NEW rest \in SUBSET Blocks, Enter(t, name, b, p, rest),
             name = "gc" => p = "mark"
      PROVE  UNCHANGED <<blocks, pins, doomed>>
  <2>1. /\ call[t].at = "idle" /\ call'[t].at = p /\ call'[t].op = name
        /\ \A u \in Callers \ {t} : call'[u] = call[u]
        /\ UNCHANGED <<blocks, pins>>
    BY <1>1, EnterType DEF UnchangedBlocks, UnchangedPins
  <2>2. ~Collecting(t)' /\ ~Collecting(t)
    BY <1>1, <2>1 DEF Collecting
  <2> QED
    BY <2>1, <2>2, MoveDooms
<1>2. CASE \E b \in Blocks \ Files : Add(t, b)
  BY <1>2, <1>1 DEF Add, OpNames, Queued
<1>3. CASE \E m \in Files : AddFile(t, m)
  <2>1. \A m \in Files : m \in Blocks /\ ChunksOf[m] \in SUBSET Blocks
    BY StoreAssumption
  <2> QED
    BY <1>3, <2>1, <1>1 DEF AddFile, OpNames, Queued
<1>4. CASE \E b \in Blocks : Get(t, b) \/ Pin(t, b) \/ Unpin(t, b)
  BY <1>4, <1>1 DEF Get, Pin, Unpin, OpNames, Queued
<1>5. CASE GC(t)
  BY <1>5, <1>1, AnyBlockType DEF GC, OpNames, Queued
<1>6. CASE Stop(t)
  BY <1>6, <1>1, AnyBlockType DEF Stop, OpNames, Queued
<1> QED
  BY <1>2, <1>3, <1>4, <1>5, <1>6 DEF Begin

\* Every access of a worker is an operation of ContentStore or invisible there.
LEMMA WorkRefines ==
  ASSUME TypeOK, CollectionInv, NEW t \in Callers, Work(t)
  PROVE  [Content!Next]_Content!vars
<1> DEFINE Same  == UNCHANGED <<blocks, pins, doomed>>
           Ended == UNCHANGED <<blocks, pins>> /\ doomed' = [doomed EXCEPT ![t] = {}]
<1> USE DEF UnchangedBlocks, UnchangedPins
<1>0. /\ call[t] \in Frame
      /\ call[t].at \in GCPoints <=> call[t].op = "gc" /\ call[t].at # "idle"
  BY DEF TypeOK, CollectionInv
<1>a. call[t].cid \in Blocks /\ call[t].blk \in Blocks
  BY <1>0 DEF Frame
<1>b. Same \/ Ended => [Content!Next]_Content!vars
  BY DEF Content!Next, Content!vars, Content!EndCollection
<1>c. Collecting(t) <=> call[t].at \in GCPoints \ {"mark"}
  BY <1>0 DEF Collecting, GCPoints
<1>d. ASSUME NEW o \in {"none", "ok", "failed", "full", "missing", "os_error"}, Return(t, o),
             UNCHANGED <<blocks, pins>>
      PROVE  Ended
  BY <1>d, ReturnDooms
<1>e. ASSUME NEW p \in (Queued \cup Working) \ {"mark"}, Goto(t, p),
             Collecting(t) \/ call[t].op # "gc"
      PROVE  doomed' = doomed
  BY <1>e, GotoDooms
<1>f. ASSUME PutReturns(t), call[t].op # "gc"
      PROVE  doomed' = doomed
  BY <1>f, PutReturnsDooms
<1>1. CASE JobRaises(t)
  BY <1>1, <1>b, <1>d DEF JobRaises, Closed, Overtaken
<1>2. CASE CheckCapacity(t)
  <2>1. call[t].op # "gc"
    BY <1>2, <1>0 DEF CheckCapacity, Start, GCPoints
  <2>2. CASE \E b \in call[t].todo :
          call' = [call EXCEPT ![t].at = "exists", ![t].blk = b, ![t].todo = @ \ {b}]
    <3>1. /\ call'[t].op = call[t].op
          /\ \A u \in Callers \ {t} : call'[u] = call[u]
      BY <2>2, <1>0 DEF TypeOK, Frame
    <3>2. doomed' = doomed
      BY <2>1, <3>1, MoveDooms DEF Collecting
    <3> QED
      BY <1>2, <3>2, <1>b DEF CheckCapacity
  <2> QED
    BY <1>2, <2>1, <2>2, <1>b, <1>d, <1>e DEF CheckCapacity, Queued
<1>3. CASE PutProbe(t)
  <2>1. call[t].op # "gc"
    BY <1>3, <1>0 DEF PutProbe, Start, In, GCPoints
  <2> QED
    BY <1>3, <2>1, <1>b, <1>e, <1>f DEF PutProbe, Working
<1>4. CASE PutWrite(t)
  <2>1. call[t].op # "gc"
    BY <1>4, <1>0 DEF PutWrite, In, GCPoints
  <2>2. doomed' = doomed
    BY <1>4, <2>1, <1>e DEF PutWrite, Working
  <2> QED
    BY <1>4, <1>a, <2>2 DEF PutWrite, Content!Next, Content!Put
<1>5. CASE PutFails(t)
  BY <1>5, <1>b, <1>d DEF PutFails
<1>6. CASE PutSave(t)
  <2>1. call[t].op # "gc"
    BY <1>6, <1>0 DEF PutSave, In, GCPoints
  <2> QED
    BY <1>6, <2>1, <1>b, <1>f DEF PutSave
<1>20. CASE PutCount(t) \/ PutTotal(t)
  <2>1. call[t].op # "gc"
    BY <1>20, <1>0 DEF PutCount, PutTotal, In, GCPoints
  <2>2. /\ call'[t].op = call[t].op
        /\ \A u \in Callers \ {t} : call'[u] = call[u]
    BY <1>20, <1>0 DEF PutCount, PutTotal, TypeOK, Frame
  <2>3. doomed' = doomed
    BY <2>1, <2>2, MoveDooms DEF Collecting
  <2> QED
    BY <1>20, <2>3, <1>b DEF PutCount, PutTotal
<1>7. CASE PinInsert(t)
  <2>1. call[t].op # "gc"
    BY <1>7, <1>0 DEF PinInsert, Start, GCPoints
  <2>2. CASE call[t].cid \in pins
    BY <1>7, <2>2, <1>b, <1>d DEF PinInsert
  <2>3. CASE call[t].cid \notin pins
    <3>1. doomed' = doomed
      BY <1>7, <2>1, <2>3, <1>e DEF PinInsert, Working
    <3> QED
      BY <1>7, <2>3, <3>1, <1>a DEF PinInsert, Content!Next, Content!Pin
  <2> QED
    BY <2>2, <2>3
<1>8. CASE PinRemove(t)
  <2>1. call[t].op # "gc"
    BY <1>8, <1>0 DEF PinRemove, Start, GCPoints
  <2>2. CASE call[t].cid \notin pins
    BY <1>8, <2>2, <1>b, <1>d DEF PinRemove
  <2>3. CASE call[t].cid \in pins
    <3>1. doomed' = doomed
      BY <1>8, <2>1, <2>3, <1>e DEF PinRemove, Working
    <3> QED
      BY <1>8, <2>3, <3>1, <1>a DEF PinRemove, Content!Next, Content!Unpin
  <2> QED
    BY <2>2, <2>3
<1>9. CASE PinsDump(t)
  <2>1. call[t].op # "gc"
    BY <1>9, <1>0 DEF PinsDump, In, GCPoints
  <2>2. /\ call'[t].op = call[t].op
        /\ \A u \in Callers \ {t} : call'[u] = call[u]
    BY <1>9, <1>0 DEF PinsDump, TypeOK, Frame
  <2>3. doomed' = doomed
    BY <2>1, <2>2, MoveDooms DEF Collecting
  <2> QED
    BY <1>9, <2>3, <1>b DEF PinsDump
<1>10. CASE PinsWriteTmp(t) \/ PinsReplace(t) \/ PinsNotSaved(t)
  <2>1. call[t].op # "gc"
    BY <1>10, <1>0 DEF PinsWriteTmp, PinsReplace, PinsNotSaved, In, GCPoints
  <2> QED
    BY <1>10, <2>1, <1>b, <1>d, <1>e DEF PinsWriteTmp, PinsReplace, PinsNotSaved, Working
<1>11. CASE Mark(t)
  <2>1. /\ call[t].op = "gc" /\ call'[t] = [call[t] EXCEPT !.at = "sweep", !.snap = pins]
        /\ \A u \in Callers \ {t} : call'[u] = call[u]
    BY <1>11, <1>0 DEF Mark, Start, GCPoints, TypeOK
  <2>2. Collecting(t)' /\ call'[t].snap = pins
    BY <2>1, <1>0 DEF Frame, Collecting
  <2>3. doomed' = [doomed EXCEPT ![t] = Blocks \ pins]
    BY <2>1, <2>2, OthersDoomSame
  <2> QED
    BY <1>11, <2>3 DEF Mark, Content!Next, Content!BeginCollection
<1>12. CASE Sweep(t)
  <2>1. call'[t] = [call[t] EXCEPT !.at = "victim", !.todo = blocks \ call[t].snap]
        /\ \A u \in Callers \ {t} : call'[u] = call[u]
    BY <1>12, <1>0 DEF Sweep, TypeOK
  <2>2. call[t].op = "gc" /\ call[t].at = "sweep"
    BY <1>12, <1>0 DEF Sweep, Start, GCPoints
  <2>3. /\ call'[t].at = "victim" /\ call'[t].op = call[t].op
        /\ call'[t].snap = call[t].snap
    BY <2>1, <1>0 DEF Frame
  <2>4. Collecting(t) /\ Collecting(t)'
    BY <2>2, <2>3 DEF Collecting
  <2> QED
    BY <1>12, <2>1, <2>3, <2>4, <1>b, MoveDooms DEF Sweep
<1>13. ASSUME NEW b \in Blocks, DeleteProbe(t, b)
       PROVE  [Content!Next]_Content!vars
  <2>1. /\ call'[t].at \in {"unlink", "victim"} /\ call'[t].op = call[t].op
        /\ call'[t].snap = call[t].snap
        /\ \A u \in Callers \ {t} : call'[u] = call[u]
    BY <1>13, <1>0 DEF DeleteProbe, TypeOK, Frame
  <2>2. Collecting(t) /\ Collecting(t)'
    BY <1>13, <2>1, <1>0 DEF DeleteProbe, In, Collecting, GCPoints
  <2> QED
    BY <1>13, <2>1, <2>2, <1>b, MoveDooms DEF DeleteProbe
<1>14. CASE DeleteUnlink(t)
  <2>1. Collecting(t) /\ call[t].blk \in doomed[t]
    BY <1>14, <1>0, <1>a DEF DeleteUnlink, In, Collecting, GCPoints, CollectionInv, doomed
  <2>2. CASE Goto(t, "uncount") /\ blocks' = blocks \ {call[t].blk}
    <3>1. doomed' = doomed
      BY <2>1, <2>2, <1>e DEF Working
    <3> QED
      BY <1>14, <2>1, <2>2, <3>1, <1>a DEF DeleteUnlink, Content!Next, Content!Discard
  <2>3. CASE Return(t, "failed") /\ UNCHANGED blocks
    BY <1>14, <2>3, <1>b, <1>d DEF DeleteUnlink
  <2> QED
    BY <1>14, <2>2, <2>3 DEF DeleteUnlink
<1>15. CASE DeleteUncount(t) \/ DeleteStore(t) \/ DeleteCut(t)
  <2>1. /\ call'[t].at \in {"store", "cut", "resave"} /\ call'[t].op = call[t].op
        /\ call'[t].snap = call[t].snap
        /\ \A u \in Callers \ {t} : call'[u] = call[u]
    BY <1>15, <1>0 DEF DeleteUncount, DeleteStore, DeleteCut, TypeOK, Frame
  <2>2. Collecting(t) /\ Collecting(t)'
    BY <1>15, <2>1, <1>0 DEF DeleteUncount, DeleteStore, DeleteCut, In, Collecting, GCPoints
  <2> QED
    BY <1>15, <2>1, <2>2, <1>b, MoveDooms DEF DeleteUncount, DeleteStore, DeleteCut
<1>16. CASE DeleteSave(t) \/ GCDone(t)
  <2>1. Collecting(t)
    BY <1>16, <1>c DEF DeleteSave, GCDone, In, GCPoints
  <2> QED
    BY <1>16, <2>1, <1>b, <1>e DEF DeleteSave, GCDone, Working
<1>17. CASE GCSave(t)
  BY <1>17, <1>b, <1>d DEF GCSave
<1>18. CASE GetProbe(t) \/ GetRead(t)
  <2>1. call[t].op # "gc"
    BY <1>18, <1>0 DEF GetProbe, GetRead, Start, In, GCPoints
  <2> QED
    BY <1>18, <2>1, <1>b, <1>d, <1>e DEF GetProbe, GetRead, Working
<1>19. CASE CloseBlocks(t) \/ ClosePins(t)
  <2>1. call[t].op # "gc"
    BY <1>19, <1>0 DEF CloseBlocks, ClosePins, Start, GCPoints
  <2> QED
    BY <1>19, <2>1, <1>b, <1>e DEF CloseBlocks, ClosePins, Queued, Working
<1> QED
  BY <1>1, <1>2, <1>3, <1>4, <1>5, <1>6, <1>7, <1>8, <1>9, <1>10, <1>11, <1>12, <1>13,
     <1>14, <1>15, <1>16, <1>17, <1>18, <1>19, <1>20 DEF Work

LEMMA StepRefines ==
  ASSUME TypeOK, CollectionInv, [Next]_vars
  PROVE  [Content!Next]_Content!vars
<1>1. CASE UNCHANGED vars
  BY <1>1 DEF vars, Content!vars, doomed, Collecting
<1>2. CASE Restart
  <2>1. doomed' = [t \in Callers |-> {}]
    BY <1>2 DEF Restart, doomed, Collecting, IdleFrame
  <2> QED
    BY <1>2, <2>1 DEF Restart, TypeOK, Content!Next, Content!Reopen
<1>3. ASSUME NEW t \in Callers, Begin(t)
      PROVE  [Content!Next]_Content!vars
  BY <1>3, BeginRefines DEF Content!vars
<1> QED
  BY <1>1, <1>2, <1>3, WorkRefines DEF Next

\* The store, with its jobs interleaved, its closings and its crashes,
\* implements the atomic one.
THEOREM StoreRefines == Spec => ImplementsContent
<1>1. Init => Content!Init
  BY DEF Init, Content!Init, doomed, Collecting, IdleFrame
<1> QED
  BY <1>1, TypeCorrect, CollectionCorrect, StepRefines, PTL
     DEF Spec, ImplementsContent, Content!Spec

\* Stored content whose pin every collection under way has seen stays.
THEOREM ShieldedKept == Spec => ShieldedStays
<1>1. ASSUME TypeOK, CollectionInv, [Next]_vars, NEW b \in Blocks, Shielded(b)
      PROVE  b \in blocks' /\ (b \in pins' => Shielded(b)')
  <2> DEFINE Safe == \A t \in Callers : b \notin doomed[t]
  <2>1. b \in blocks /\ b \in pins /\ Safe
    BY <1>1 DEF Shielded, doomed
  <2>2. [Content!Next]_Content!vars
    BY <1>1, StepRefines
  <2>3. b \in blocks' /\ (b \in pins' => Safe')
    BY <2>1, <2>2
       DEF Content!Next, Content!vars, Content!Put, Content!Pin, Content!Unpin,
           Content!BeginCollection, Content!EndCollection, Content!Discard, Content!Reopen, doomed
  <2>4. Safe' => \A t \in Callers : Collecting(t)' => b \in call'[t].snap
    BY DEF doomed
  <2> QED
    BY <2>3, <2>4 DEF Shielded
<1>2. ASSUME TypeOK, CollectionInv, [Next]_vars
      PROVE  [\A b \in Blocks :
                Shielded(b) => b \in blocks' /\ (b \in pins' => Shielded(b)')]_vars
  BY <1>1, <1>2
<1> QED
  BY <1>2, TypeCorrect, CollectionCorrect, PTL DEF Spec, ShieldedStays

-----------------------------------------------------------------------------
(* What a call is at, and what it was made for *)

AddOps   == {"add", "add_unpinned", "add_file"}
PinOps   == {"add", "add_file", "pin", "unpin", "stop"}

PutPoints == {"capacity", "exists", "chunk", "write", "count", "total", "save"}
Saving    == {"dump", "tmp", "replace"}
PinPoints == {"pin", "unpin", "close_blocks", "close_pins"} \cup Saving

\* A call is of an operation its caller uses, and only those that store blocks,
\* or change pins, reach the code that does.
OpOK(t, at, op) ==
  at # "idle" => /\ op \in Ops[t]
                 /\ at \in PutPoints => op \in AddOps
                 /\ at \in PinPoints => op \in PinOps

OpInv == \A t \in Callers : OpOK(t, call[t].at, call[t].op)

LEMMA OpKept ==
  ASSUME OpInv, NEW t \in Callers, \A u \in Callers \ {t} : call'[u] = call[u],
         OpOK(t, call'[t].at, call'[t].op)
  PROVE  OpInv'
BY DEF OpInv

LEMMA OpInit == Init => OpInv
BY DEF Init, OpInv, OpOK, IdleFrame

LEMMA BeginOps ==
  ASSUME TypeOK, OpInv, NEW t \in Callers, Begin(t)
  PROVE  OpInv'
<1>1. ASSUME NEW name \in OpNames, NEW b \in Blocks, NEW p \in Queued, NEW rest \in SUBSET Blocks,
             Enter(t, name, b, p, rest),
             p \in PutPoints => name \in AddOps, p \in PinPoints => name \in PinOps
      PROVE  OpInv'
  <2>1. name \in Ops[t]
    BY <1>1 DEF Enter
  <2>2. OpOK(t, call'[t].at, call'[t].op)
    BY <1>1, <2>1, EnterType DEF OpOK
  <2> QED
    BY <1>1, <2>2, EnterType, OpKept
<1> USE DEF OpNames, Queued, PutPoints, PinPoints, Saving, AddOps, PinOps
<1>2. CASE \E b \in Blocks \ Files : Add(t, b)
  BY <1>1, <1>2 DEF Add
<1>3. CASE \E m \in Files : AddFile(t, m)
  <2>1. \A m \in Files : m \in Blocks /\ ChunksOf[m] \in SUBSET Blocks
    BY StoreAssumption
  <2> QED
    BY <1>1, <1>3, <2>1 DEF AddFile
<1>4. CASE \E b \in Blocks : Get(t, b) \/ Pin(t, b) \/ Unpin(t, b)
  BY <1>1, <1>4 DEF Get, Pin, Unpin
<1>5. CASE GC(t)
  BY <1>1, <1>5, AnyBlockType DEF GC
<1>6. CASE Stop(t)
  BY <1>1, <1>6, AnyBlockType DEF Stop
<1> QED
  BY <1>2, <1>3, <1>4, <1>5, <1>6 DEF Begin

\* How a step of a job moves its call: what the call ends at belongs to the
\* operation it was made for.
LEMMA WorkOps ==
  ASSUME TypeOK, OpInv, NEW t \in Callers, Work(t)
  PROVE  /\ OpInv'
         /\ \A u \in Callers \ {t} : call'[u] = call[u]
         /\ call'[t].at # "idle" => call'[t].op = call[t].op
<1> DEFINE Goal == /\ OpOK(t, call'[t].at, call'[t].op)
                   /\ \A u \in Callers \ {t} : call'[u] = call[u]
                   /\ call'[t].at # "idle" => call'[t].op = call[t].op
<1> SUFFICES Goal
  BY OpKept
<1>0. call[t] \in Frame /\ OpOK(t, call[t].at, call[t].op)
  BY DEF TypeOK, OpInv
<1>1. ASSUME NEW o \in {"none", "ok", "failed", "full", "missing", "os_error"}, Return(t, o)
      PROVE  Goal
  BY <1>1, ReturnType DEF OpOK
<1>2. ASSUME NEW p \in Queued \cup Working, Goto(t, p), OpOK(t, p, call[t].op)
      PROVE  Goal
  <2>1. /\ call'[t] = [call[t] EXCEPT !.at = p]
        /\ \A u \in Callers \ {t} : call'[u] = call[u]
    BY <1>2, GotoType
  <2>2. call'[t].at = p /\ call'[t].op = call[t].op
    BY <2>1, <1>0 DEF Frame
  <2> QED
    BY <1>2, <2>1, <2>2
<1>3. ASSUME PutReturns(t), call[t].at \in PutPoints
      PROVE  Goal
  <2>1. call[t].op \in Ops[t] /\ call[t].op \in AddOps
    BY <1>0, <1>3 DEF OpOK, PutPoints
  <2>2. call'[t].at = "pin" => call[t].op # "add_unpinned"
    <3>1. CASE \E b \in call[t].todo :
            call' = [call EXCEPT ![t].at = "chunk", ![t].blk = b, ![t].todo = @ \ {b}]
      <4>1. call'[t].at = "chunk"
        BY <1>0, <3>1 DEF TypeOK, Frame
      <4> QED
        BY <4>1
    <3>2. CASE call' = [call EXCEPT ![t].at = "exists", ![t].blk = call[t].cid]
      <4>1. call'[t].at = "exists"
        BY <1>0, <3>2 DEF TypeOK, Frame
      <4> QED
        BY <4>1
    <3>3. CASE Return(t, "ok")
      BY <3>3, ReturnType
    <3> QED
      BY <1>3, <3>1, <3>2, <3>3 DEF PutReturns
  <2>3. call'[t].at = "pin" => call[t].op \in PinOps
    BY <2>1, <2>2 DEF AddOps, PinOps
  <2> QED
    BY <1>3, <2>1, <2>3, PutReturnsType DEF OpOK, PutPoints, PinPoints, Saving
<1>4. ASSUME NEW p \in Queued \cup Working, OpOK(t, p, call[t].op),
             call'[t].at = p, call'[t].op = call[t].op,
             \A u \in Callers \ {t} : call'[u] = call[u]
      PROVE  Goal
  BY <1>4
<1> HIDE DEF Goal
<1> USE DEF PutPoints, PinPoints, Saving, OpOK, Queued, Working
<1>5. CASE JobRaises(t)
  BY <1>5, <1>1 DEF JobRaises, Closed, Overtaken
<1>6. CASE CheckCapacity(t)
  <2>1. call[t].at = "capacity"
    BY <1>6 DEF CheckCapacity, Start
  <2>2. CASE \E b \in call[t].todo :
          call' = [call EXCEPT ![t].at = "exists", ![t].blk = b, ![t].todo = @ \ {b}]
    <3>1. /\ call'[t].at = "exists" /\ call'[t].op = call[t].op
          /\ \A u \in Callers \ {t} : call'[u] = call[u]
      BY <2>2, <1>0 DEF TypeOK, Frame
    <3> QED
      BY <1>0, <1>4, <2>1, <3>1
  <2> QED
    BY <1>0, <1>1, <1>2, <1>6, <2>1, <2>2 DEF CheckCapacity
<1>7. CASE PutProbe(t)
  BY <1>0, <1>2, <1>3, <1>7 DEF PutProbe, Start, In
<1>8. CASE PutWrite(t) \/ PutFails(t) \/ PutSave(t)
  BY <1>0, <1>1, <1>2, <1>3, <1>8 DEF PutWrite, PutFails, PutSave, In
<1>9. CASE PutCount(t) \/ PutTotal(t)
  <2>1. /\ call[t].at \in {"count", "total"}
        /\ call'[t].at \in {"total", "save"} /\ call'[t].op = call[t].op
        /\ \A u \in Callers \ {t} : call'[u] = call[u]
    BY <1>9, <1>0 DEF PutCount, PutTotal, In, TypeOK, Frame
  <2> QED
    BY <1>0, <1>4, <2>1
<1>10. CASE PinInsert(t) \/ PinRemove(t)
  BY <1>0, <1>1, <1>2, <1>10 DEF PinInsert, PinRemove, Start
<1>11. CASE PinsDump(t)
  <2>1. /\ call[t].at = "dump" /\ call'[t].at = "tmp" /\ call'[t].op = call[t].op
        /\ \A u \in Callers \ {t} : call'[u] = call[u]
    BY <1>11, <1>0 DEF PinsDump, In, TypeOK, Frame
  <2> QED
    BY <1>0, <1>4, <2>1
<1>12. CASE PinsWriteTmp(t) \/ PinsReplace(t) \/ PinsNotSaved(t)
  BY <1>0, <1>1, <1>2, <1>12 DEF PinsWriteTmp, PinsReplace, PinsNotSaved, In
<1>13. ASSUME NEW b \in Blocks, Mark(t) \/ Sweep(t) \/ DeleteProbe(t, b)
       PROVE  Goal
  <2>1. /\ call[t].at \in {"mark", "sweep", "victim"}
        /\ call'[t].at \in {"sweep", "victim", "unlink"} /\ call'[t].op = call[t].op
        /\ \A u \in Callers \ {t} : call'[u] = call[u]
    <3>1. CASE Mark(t)  BY <3>1, <1>0 DEF Mark, Start, TypeOK, Frame
    <3>2. CASE Sweep(t)  BY <3>2, <1>0 DEF Sweep, Start, TypeOK, Frame
    <3>3. CASE DeleteProbe(t, b)  BY <3>3, <1>0 DEF DeleteProbe, In, TypeOK, Frame
    <3> QED
      BY <1>13, <3>1, <3>2, <3>3
  <2> QED
    BY <1>0, <1>4, <2>1
<1>14. CASE DeleteUnlink(t)
  BY <1>0, <1>1, <1>2, <1>14 DEF DeleteUnlink, In
<1>15. CASE DeleteUncount(t) \/ DeleteStore(t) \/ DeleteCut(t)
  <2>1. /\ call[t].at \in {"uncount", "store", "cut"}
        /\ call'[t].at \in {"store", "cut", "resave"} /\ call'[t].op = call[t].op
        /\ \A u \in Callers \ {t} : call'[u] = call[u]
    BY <1>15, <1>0 DEF DeleteUncount, DeleteStore, DeleteCut, In, TypeOK, Frame
  <2> QED
    BY <1>0, <1>4, <2>1
<1>16. CASE DeleteSave(t) \/ GCDone(t) \/ GCSave(t)
  BY <1>0, <1>1, <1>2, <1>16 DEF DeleteSave, GCDone, GCSave, In
<1>17. CASE GetProbe(t) \/ GetRead(t)
  BY <1>0, <1>1, <1>2, <1>17 DEF GetProbe, GetRead, Start, In
<1>18. CASE CloseBlocks(t) \/ ClosePins(t)
  BY <1>0, <1>2, <1>18 DEF CloseBlocks, ClosePins, Start
<1> QED
  BY <1>5, <1>6, <1>7, <1>8, <1>9, <1>10, <1>11, <1>12, <1>13, <1>14, <1>15, <1>16, <1>17,
     <1>18, AnyBlockType DEF Work

LEMMA OpAlways == Spec => []OpInv
<1>1. TypeOK /\ OpInv /\ [Next]_vars => OpInv'
  <2>1. OpInv /\ UNCHANGED vars => OpInv'
    BY DEF vars, OpInv
  <2>2. Restart => OpInv'
    BY DEF Restart, OpInv, OpOK, IdleFrame
  <2> QED
    BY <2>1, <2>2, BeginOps, WorkOps DEF Next
<1> QED
  BY OpInit, TypeCorrect, <1>1, PTL DEF Spec

-----------------------------------------------------------------------------
(* Pins and pins.json *)

\* Callers t and u do not both use operations of `ops'.
Alone(ops) == \A t, u \in Callers : Ops[t] \cap ops # {} /\ Ops[u] \cap ops # {} => t = u

\* What the call that saves the pins has copied, and written to pins.tmp, are
\* the pins.
PinInv ==
  /\ \A t \in Callers : call[t].at = "tmp" => call[t].snap = pins
  /\ \A t \in Callers : call[t].at = "replace" => tmpPins = {pins}
  /\ PinsPersisted

LEMMA PinInit == Init => PinInv
BY DEF Init, PinInv, PinsPersisted, IdleFrame

\* A step that leaves the pins and both their files alone, of a call that is
\* not saving them, and at most begins to.
LEMMA PinQuiet ==
  ASSUME PinInv, NEW t \in Callers, \A u \in Callers \ {t} : call'[u] = call[u],
         UnchangedPins, call[t].at \notin Saving, call'[t].at \notin {"tmp", "replace"}
  PROVE  PinInv'
<1>1. \A u \in Callers : call'[u].at \in {"tmp", "replace"} => call'[u] = call[u]
  OBVIOUS
<1>2. PinsPersisted'
  <2>1. CASE \A u \in Callers : call'[u].at \notin {"dump", "tmp", "replace"}
    BY <2>1 DEF PinInv, PinsPersisted, UnchangedPins, Saving
  <2>2. CASE ~\A u \in Callers : call'[u].at \notin {"dump", "tmp", "replace"}
    BY <2>2 DEF PinsPersisted
  <2> QED
    BY <2>1, <2>2
<1> QED
  BY <1>1, <1>2 DEF PinInv, UnchangedPins

\* Where one caller changes pins, whoever saves them, or is about to, is alone.
LEMMA OneSaves ==
  ASSUME Alone(PinOps), OpInv, NEW t \in Callers, call[t].at \in PinPoints
  PROVE  \A u \in Callers \ {t} : call[u].at \notin PinPoints
<1>1. \A u \in Callers : call[u].at \in PinPoints => call[u].op \in Ops[u] \cap PinOps
  BY DEF OpInv, OpOK, PinPoints, Saving
<1> QED
  BY <1>1 DEF Alone

LEMMA GotoAt ==
  ASSUME TypeOK, NEW t \in Callers, NEW p \in Queued \cup Working, Goto(t, p)
  PROVE  call'[t].at = p /\ call'[t].op = call[t].op
<1>1. call'[t] = [call[t] EXCEPT !.at = p]
  BY GotoType
<1> QED
  BY <1>1 DEF TypeOK, Frame

\* The end of a job that does not save pins.
LEMMA PlainMove ==
  ASSUME TypeOK, OpInv, NEW t \in Callers, Work(t), call[t].at \notin Saving
  PROVE  /\ \A u \in Callers \ {t} : call'[u] = call[u]
         /\ call'[t].at \notin {"tmp", "replace"}
<1> SUFFICES call'[t].at \notin {"tmp", "replace"}
  BY WorkOps
<1>0. call[t] \in Frame
  BY DEF TypeOK
<1>1. ASSUME NEW o \in {"none", "ok", "failed", "full", "missing", "os_error"}, Return(t, o)
      PROVE  call'[t].at \notin {"tmp", "replace"}
  BY <1>1, ReturnType
<1>2. ASSUME NEW p \in (Queued \cup Working) \ {"tmp", "replace"}, Goto(t, p)
      PROVE  call'[t].at \notin {"tmp", "replace"}
  BY <1>2, GotoAt
<1> USE DEF Queued, Working
<1>3. CASE JobRaises(t)
  BY <1>1, <1>3 DEF JobRaises, Closed, Overtaken
<1>4. CASE CheckCapacity(t)
  <2>1. CASE \E b \in call[t].todo :
          call' = [call EXCEPT ![t].at = "exists", ![t].blk = b, ![t].todo = @ \ {b}]
    BY <1>0, <2>1 DEF TypeOK, Frame
  <2> QED
    BY <1>1, <1>2, <1>4, <2>1 DEF CheckCapacity
<1>5. CASE PutProbe(t) \/ PutSave(t)
  BY <1>2, <1>5, PutReturnsType DEF PutProbe, PutSave
<1>6. CASE PutWrite(t) \/ PutFails(t)
  BY <1>1, <1>2, <1>6 DEF PutWrite, PutFails
<1>7. CASE PutCount(t) \/ PutTotal(t)
  BY <1>0, <1>7 DEF PutCount, PutTotal, TypeOK, Frame
<1>8. CASE PinInsert(t) \/ PinRemove(t)
  BY <1>1, <1>2, <1>8 DEF PinInsert, PinRemove
<1>9. CASE PinsDump(t) \/ PinsWriteTmp(t) \/ PinsReplace(t) \/ PinsNotSaved(t)
  BY <1>9 DEF PinsDump, PinsWriteTmp, PinsReplace, PinsNotSaved, In, Saving
<1>10. CASE Mark(t) \/ Sweep(t)
  BY <1>0, <1>10 DEF Mark, Sweep, TypeOK, Frame
<1>11. CASE \E b \in Blocks : DeleteProbe(t, b)
  BY <1>0, <1>11 DEF DeleteProbe, TypeOK, Frame
<1>12. CASE DeleteUnlink(t)
  BY <1>1, <1>2, <1>12 DEF DeleteUnlink
<1>13. CASE DeleteUncount(t) \/ DeleteStore(t) \/ DeleteCut(t)
  BY <1>0, <1>13 DEF DeleteUncount, DeleteStore, DeleteCut, TypeOK, Frame
<1>14. CASE DeleteSave(t) \/ GCDone(t) \/ GCSave(t)
  BY <1>1, <1>2, <1>14 DEF DeleteSave, GCDone, GCSave
<1>15. CASE GetProbe(t) \/ GetRead(t)
  BY <1>1, <1>2, <1>15 DEF GetProbe, GetRead
<1>16. CASE CloseBlocks(t) \/ ClosePins(t)
  BY <1>2, <1>16 DEF CloseBlocks, ClosePins
<1> QED
  BY <1>0, <1>3, <1>4, <1>5, <1>6, <1>7, <1>8, <1>9, <1>10, <1>11, <1>12, <1>13, <1>14, <1>15,
     <1>16 DEF Work

\* Only pin and unpin change the pins, and only the save its files.
LEMMA PlainPins ==
  ASSUME NEW t \in Callers, Work(t), ~PinInsert(t), ~PinRemove(t), call[t].at \notin Saving
  PROVE  UnchangedPins
BY DEF Work, JobRaises, Closed, Overtaken,
   CheckCapacity, PutProbe, PutWrite, PutFails, PutCount, PutTotal, PutSave,
   PinsDump, PinsWriteTmp, PinsReplace, PinsNotSaved, In, Saving, Mark, Sweep, DeleteProbe,
   DeleteUnlink, DeleteUncount, DeleteStore, DeleteCut, DeleteSave, GCDone, GCSave, GetProbe,
   GetRead, CloseBlocks, ClosePins

\* A call that is saving pins does nothing else.
LEMMA SavingSteps ==
  ASSUME TypeOK, NEW t \in Callers, Work(t), call[t].at \in Saving
  PROVE  PinsDump(t) \/ PinsWriteTmp(t) \/ PinsReplace(t) \/ PinsNotSaved(t)
BY DEF Work, JobRaises, Closed, Overtaken,
   CheckCapacity, PutProbe, PutWrite, PutFails, PutCount, PutTotal, PutSave,
   PinInsert, PinRemove, In, Start, Saving, Mark, Sweep, DeleteProbe,
   DeleteUnlink, DeleteUncount, DeleteStore, DeleteCut, DeleteSave, GCDone, GCSave, GetProbe,
   GetRead, CloseBlocks, ClosePins

LEMMA WorkPins ==
  ASSUME Alone(PinOps), "save_pins" \notin Faults, TypeOK, OpInv, PinInv,
         NEW t \in Callers, Work(t)
  PROVE  PinInv'
<1>0. call[t] \in Frame /\ \A u \in Callers \ {t} : call'[u] = call[u]
  BY WorkOps DEF TypeOK
<1>1. ASSUME call[t].at \in PinPoints
      PROVE  \A u \in Callers \ {t} : call[u].at \notin Saving /\ call'[u].at \notin Saving
  BY <1>0, <1>1, OneSaves DEF PinPoints
<1>2. CASE call[t].at \notin Saving /\ UnchangedPins
  BY <1>0, <1>2, PlainMove, PinQuiet
<1>3. ASSUME PinInsert(t) \/ PinRemove(t), ~UnchangedPins
      PROVE  PinInv'
  <2>1. call[t].at \in PinPoints
    BY <1>3 DEF PinInsert, PinRemove, Start, PinPoints
  <2>2. Goto(t, "dump")
    BY <1>3 DEF PinInsert, PinRemove, UnchangedPins
  <2>3. call'[t].at = "dump"
    BY <2>2, GotoAt DEF Working
  <2> QED
    BY <1>1, <2>1, <2>3 DEF PinInv, PinsPersisted, Saving
<1>4. ASSUME call[t].at \in Saving
      PROVE  PinInv'
  <2>0. \A u \in Callers \ {t} : call'[u].at \notin Saving
    BY <1>1, <1>4 DEF PinPoints
  <2>1. CASE PinsDump(t)
    <3>1. call'[t].at = "tmp" /\ call'[t].snap = pins
      BY <1>0, <2>1 DEF PinsDump, TypeOK, Frame
    <3> QED
      BY <2>0, <2>1, <3>1 DEF PinsDump, UnchangedPins, PinInv, PinsPersisted, Saving
  <2>2. CASE PinsWriteTmp(t)
    <3>1. call[t].at = "tmp" /\ Goto(t, "replace") /\ tmpPins' = {call[t].snap} /\ UNCHANGED pins
      BY <2>2 DEF PinsWriteTmp, In
    <3>2. call'[t].at = "replace"
      BY <3>1, GotoAt DEF Working
    <3> QED
      BY <2>0, <3>1, <3>2 DEF PinInv, PinsPersisted, Saving
  <2>3. CASE PinsReplace(t)
    <3>1. tmpPins = {pins}
      BY <2>3 DEF PinsReplace, In, PinInv
    <3>2. savedPins' = pins /\ pins' = pins
      BY <2>3, <3>1 DEF PinsReplace
    <3>3. call'[t].at = "idle"
      BY <2>3, ReturnType DEF PinsReplace
    <3> QED
      BY <2>0, <3>2, <3>3 DEF PinInv, PinsPersisted, Saving
  <2>4. ~PinsNotSaved(t)
    BY DEF PinsNotSaved
  <2> QED
    BY <1>4, <2>1, <2>2, <2>3, <2>4, SavingSteps
<1> QED
  BY <1>2, <1>3, <1>4, PlainPins

LEMMA BeginPins ==
  ASSUME TypeOK, PinInv, NEW t \in Callers, Begin(t)
  PROVE  PinInv'
<1>1. ASSUME NEW name \in OpNames, NEW b \in Blocks, NEW p \in Queued, NEW rest \in SUBSET Blocks,
             Enter(t, name, b, p, rest)
      PROVE  PinInv'
  BY <1>1, EnterType, PinQuiet DEF Saving, Queued
<1> USE DEF OpNames, Queued
<1>2. CASE \E b \in Blocks \ Files : Add(t, b)
  BY <1>1, <1>2 DEF Add
<1>3. CASE \E m \in Files : AddFile(t, m)
  <2>1. \A m \in Files : m \in Blocks /\ ChunksOf[m] \in SUBSET Blocks
    BY StoreAssumption
  <2> QED
    BY <1>1, <1>3, <2>1 DEF AddFile
<1>4. CASE \E b \in Blocks : Get(t, b) \/ Pin(t, b) \/ Unpin(t, b)
  BY <1>1, <1>4 DEF Get, Pin, Unpin
<1>5. CASE GC(t)
  BY <1>1, <1>5, AnyBlockType DEF GC
<1>6. CASE Stop(t)
  BY <1>1, <1>6, AnyBlockType DEF Stop
<1> QED
  BY <1>2, <1>3, <1>4, <1>5, <1>6 DEF Begin

\* Where one caller at a time changes the pins, and the file system saves them,
\* pins.json is the dictionary whenever no call is inside _save: whatever other
\* callers store, read and collect meanwhile, and however often the process
\* crashes and starts again.
THEOREM PinsKept ==
  ASSUME Alone(PinOps), "save_pins" \notin Faults
  PROVE  Spec => []PinsPersisted
<1>1. TypeOK /\ OpInv /\ PinInv /\ [Next]_vars => PinInv'
  <2>1. PinInv /\ UNCHANGED vars => PinInv'
    BY DEF vars, PinInv, PinsPersisted
  <2>2. Restart => PinInv'
    BY DEF Restart, PinInv, PinsPersisted, IdleFrame
  <2> QED
    BY <2>1, <2>2, BeginPins, WorkPins DEF Next
<1>2. PinInv => PinsPersisted
  BY DEF PinInv
<1> QED
  BY PinInit, TypeCorrect, OpAlways, <1>1, <1>2, PTL DEF Spec

-----------------------------------------------------------------------------
(* The bytes of a set of blocks.  A least counterexample stands in for       *)
(* induction: a set of naturals that is not empty has a least element.       *)

LEMMA LeastNat ==
  ASSUME NEW T \in SUBSET Nat, T # {}
  PROVE  \E m \in T : \A k \in T : m <= k
<1> DEFINE R == OpToRel(<, Nat)
<1>1. IsWellFoundedOn(R, Nat)
  BY NatLessThanWellFounded
<1>2. \A x, y \in Nat : x < y => <<x, y>> \in R
  BY DEF OpToRel
<1> HIDE DEF R
<1>3. PICK m \in T : \A y \in T : <<y, m>> \notin R
  BY <1>1, WFMin
<1>4. \A j, k \in Nat : ~(k < j) => j <= k
  OBVIOUS
<1>5. \A k \in T : m <= k
  BY <1>2, <1>3, <1>4
<1> QED
  BY <1>5

\* A set of sets of blocks with a member has a smallest one.
LEMMA SmallestSet ==
  ASSUME NEW C \in SUBSET SUBSET Blocks, C # {}
  PROVE  \E S \in C : \A T \in C : Cardinality(S) <= Cardinality(T)
<1> DEFINE N == {Cardinality(S) : S \in C}
<1>1. \A S \in C : IsFiniteSet(S) /\ Cardinality(S) \in Nat
  BY StoreAssumption, FS_Subset, FS_CardinalityType
<1>2. N \in SUBSET Nat /\ N # {}
  BY <1>1
<1>3. PICK m \in N : \A k \in N : m <= k
  BY <1>2, LeastNat
<1> QED
  BY <1>3

Some(S) == CHOOSE b \in S : TRUE

\* g sums up the subsets of S, one element after the other.
Sums(g, S) ==
  g = [s \in SUBSET S |-> IF s = {} THEN 0 ELSE SizeOf[Some(s)] + g[s \ {Some(s)}]]

LEMMA BytesChosen == \A S : Bytes(S) = (CHOOSE g : Sums(g, S))[S]
BY DEF Bytes, MapThenSumSet, MapThenFoldSet, Sums, Some

LEMMA SomeIn == \A S : S # {} => Some(S) \in S
BY DEF Some

LEMMA SubsetFacts ==
  ASSUME NEW S \in SUBSET Blocks
  PROVE  /\ IsFiniteSet(S) /\ Cardinality(S) \in Nat
         /\ \A b \in S : Cardinality(S \ {b}) = Cardinality(S) - 1
BY StoreAssumption, FS_Subset, FS_CardinalityType, FS_RemoveElement

\* Two ways of summing up agree where both are defined.
LEMMA SumsAgree ==
  ASSUME NEW S \in SUBSET Blocks, NEW T \in SUBSET Blocks, NEW g, NEW h, Sums(g, S), Sums(h, T),
         NEW U \in SUBSET (S \cap T)
  PROVE  g[U] = h[U]
<1> DEFINE C == {s \in SUBSET (S \cap T) : g[s] # h[s]}
<1> SUFFICES ASSUME C # {} PROVE FALSE
  OBVIOUS
<1>1. PICK s \in C : \A t \in C : Cardinality(s) <= Cardinality(t)
  BY SmallestSet
<1>2. s \in SUBSET S /\ s \in SUBSET T /\ g[s] # h[s]
  OBVIOUS
<1>3. s # {}
  BY <1>2 DEF Sums
<1>4. Some(s) \in s
  BY <1>3, SomeIn
<1>5. s \ {Some(s)} \notin C
  <2>1. Cardinality(s \ {Some(s)}) = Cardinality(s) - 1 /\ Cardinality(s) \in Nat
    BY <1>2, <1>4, SubsetFacts
  <2>2. ~(Cardinality(s) <= Cardinality(s \ {Some(s)}))
    BY <2>1
  <2> QED
    BY <1>1, <2>2
<1>6. g[s \ {Some(s)}] = h[s \ {Some(s)}]
  BY <1>2, <1>5
<1>7. /\ g[s] = SizeOf[Some(s)] + g[s \ {Some(s)}]
      /\ h[s] = SizeOf[Some(s)] + h[s \ {Some(s)}]
  BY <1>2, <1>3 DEF Sums
<1> QED
  BY <1>2, <1>6, <1>7

\* There is a way of summing up.
LEMMA SumsExist ==
  ASSUME NEW S \in SUBSET Blocks
  PROVE  \E g : Sums(g, S)
<1> DEFINE D(n) == {s \in SUBSET S : Cardinality(s) <= n}
           Upto(g, n) == g = [s \in D(n) |-> IF s = {} THEN 0
                                             ELSE SizeOf[Some(s)] + g[s \ {Some(s)}]]
           N == {n \in Nat : ~\E g : Upto(g, n)}
<1>0. \A s \in SUBSET S : /\ Cardinality(s) \in Nat
                          /\ s # {} => /\ Some(s) \in s
                                       /\ Cardinality(s \ {Some(s)}) = Cardinality(s) - 1
  BY SubsetFacts, SomeIn
<1>1. \E g : Upto(g, 0)
  <2> DEFINE g == [s \in D(0) |-> 0]
  <2>1. \A s \in D(0) : s = {}
    <3>1. \A s \in SUBSET S : IsFiniteSet(s)
      BY SubsetFacts
    <3>2. \A s \in SUBSET S : Cardinality(s) = 0 => s = {}
      BY <3>1, FS_EmptySet
    <3>3. \A k \in Nat : k <= 0 => k = 0
      OBVIOUS
    <3> QED
      BY <1>0, <3>2, <3>3
  <2>2. Upto(g, 0)
    BY <2>1
  <2> QED
    BY <2>2
<1>2. ASSUME NEW n \in Nat, NEW g, Upto(g, n)
      PROVE  \E h : Upto(h, n + 1)
  <2> DEFINE h == [s \in D(n + 1) |-> IF s = {} THEN 0 ELSE SizeOf[Some(s)] + g[s \ {Some(s)}]]
  <2>1. \A s \in D(n) : s \in D(n + 1) /\ h[s] = g[s]
    <3>1. \A s \in D(n) : s \in D(n + 1)
      <4>1. \A j, k \in Nat : j <= k => j <= k + 1
        OBVIOUS
      <4> QED
        BY <1>0, <4>1
    <3>2. \A s \in D(n) : g[s] = IF s = {} THEN 0 ELSE SizeOf[Some(s)] + g[s \ {Some(s)}]
      BY <1>2
    <3> QED
      BY <3>1, <3>2
  <2>2. \A s \in D(n + 1) : s # {} => s \ {Some(s)} \in D(n)
    BY <1>0
  <2>3. \A s \in D(n + 1) :
           h[s] = IF s = {} THEN 0 ELSE SizeOf[Some(s)] + h[s \ {Some(s)}]
    BY <2>1, <2>2
  <2>4. h = [s \in D(n + 1) |-> h[s]]
    OBVIOUS
  <2> HIDE DEF h
  <2>5. Upto(h, n + 1)
    BY <2>3, <2>4
  <2> QED
    BY <2>5
<1> HIDE DEF Upto
<1>3. N = {}
  <2> SUFFICES ASSUME N # {} PROVE FALSE
    OBVIOUS
  <2>1. PICK m \in N : \A k \in N : m <= k
    BY LeastNat
  <2>2. m # 0
    BY <1>1
  <2>3. m - 1 \in Nat /\ ~(m <= m - 1) /\ (m - 1) + 1 = m
    BY <2>2
  <2>4. m - 1 \notin N
    BY <2>1, <2>3
  <2> QED
    BY <1>2, <2>1, <2>3, <2>4
<1>4. PICK g : Upto(g, Cardinality(S))
  BY <1>0, <1>3
<1>5. D(Cardinality(S)) = SUBSET S
  <2>1. \A s \in SUBSET S : Cardinality(s) <= Cardinality(S)
    BY SubsetFacts, FS_Subset
  <2> QED
    BY <2>1
<1> QED
  BY <1>4, <1>5 DEF Sums, Upto

LEMMA BytesSums ==
  ASSUME NEW S \in SUBSET Blocks, NEW g, Sums(g, S), NEW U \in SUBSET S
  PROVE  g[U] = Bytes(U)
<1> DEFINE h == CHOOSE h : Sums(h, U)
<1>1. Sums(h, U)
  BY SumsExist
<1> HIDE DEF h
<1>2. g[U] = h[U]
  BY <1>1, SumsAgree
<1> QED
  BY <1>2, BytesChosen DEF h

\* The recursion that Bytes is.
LEMMA BytesRecursion ==
  ASSUME NEW S \in SUBSET Blocks
  PROVE  Bytes(S) = IF S = {} THEN 0 ELSE SizeOf[Some(S)] + Bytes(S \ {Some(S)})
<1>1. PICK g : Sums(g, S)
  BY SumsExist
<1>2. g[S] = IF S = {} THEN 0 ELSE SizeOf[Some(S)] + g[S \ {Some(S)}]
  BY <1>1 DEF Sums
<1>3. g[S] = Bytes(S) /\ g[S \ {Some(S)}] = Bytes(S \ {Some(S)})
  BY <1>1, BytesSums
<1> QED
  BY <1>2, <1>3

\* Whatever block is taken out first, the sum is the same.
LEMMA BytesRemove ==
  ASSUME NEW S \in SUBSET Blocks
  PROVE  /\ Bytes(S) \in Nat
         /\ \A b \in S : Bytes(S) = SizeOf[b] + Bytes(S \ {b})
<1> DEFINE Fine(s) == /\ Bytes(s) \in Nat
                      /\ \A b \in s : Bytes(s) = SizeOf[b] + Bytes(s \ {b})
           C == {s \in SUBSET Blocks : ~Fine(s)}
<1> SUFFICES ASSUME C # {} PROVE FALSE
  OBVIOUS
<1>1. PICK s \in C : \A t \in C : Cardinality(s) <= Cardinality(t)
  BY SmallestSet
<1>2. s \in SUBSET Blocks /\ ~Fine(s)
  OBVIOUS
<1>3. ASSUME NEW b \in s
      PROVE  Fine(s \ {b}) /\ SizeOf[b] \in Nat
  <2>1. Cardinality(s \ {b}) = Cardinality(s) - 1 /\ Cardinality(s) \in Nat
    BY <1>2, SubsetFacts
  <2>2. ~(Cardinality(s) <= Cardinality(s \ {b}))
    BY <2>1
  <2> QED
    BY <1>1, <1>2, <2>2, StoreAssumption
<1>4. s # {}
  <2>1. Bytes({}) = 0
    BY BytesRecursion
  <2>2. Fine({})
    BY <2>1
  <2> QED
    BY <1>2, <2>2
<1> DEFINE c == Some(s)
<1>5. c \in s
  BY <1>4, SomeIn
<1>6. Bytes(s) = SizeOf[c] + Bytes(s \ {c})
  BY <1>2, <1>4, BytesRecursion
<1> HIDE DEF c
<1>7. Bytes(s) \in Nat
  BY <1>3, <1>5, <1>6
<1>8. ASSUME NEW b \in s
      PROVE  Bytes(s) = SizeOf[b] + Bytes(s \ {b})
  <2>1. CASE b = c
    BY <1>6, <2>1
  <2>2. CASE b # c
    <3>1. Bytes(s \ {c}) = SizeOf[b] + Bytes((s \ {c}) \ {b})
      BY <1>3, <1>5, <2>2
    <3>2. Bytes(s \ {b}) = SizeOf[c] + Bytes((s \ {b}) \ {c})
      BY <1>3, <1>5, <2>2
    <3>3. (s \ {c}) \ {b} = (s \ {b}) \ {c}
      OBVIOUS
    <3>4. Bytes((s \ {b}) \ {c}) \in Nat
      <4>1. Fine(s \ {b}) /\ c \in s \ {b}
        BY <1>3, <1>5, <2>2
      <4>2. (s \ {b}) \ {c} \notin C
        <5>1. /\ Cardinality(s \ {b}) = Cardinality(s) - 1 /\ Cardinality(s) \in Nat
              /\ Cardinality((s \ {b}) \ {c}) = Cardinality(s \ {b}) - 1
          BY <1>2, <4>1, SubsetFacts
        <5>2. ~(Cardinality(s) <= Cardinality((s \ {b}) \ {c}))
          BY <5>1
        <5> QED
          BY <1>1, <5>2
      <4> QED
        BY <1>2, <4>2
    <3>5. SizeOf[b] \in Nat /\ SizeOf[c] \in Nat
      BY <1>3, <1>5
    <3>6. \A i, j, k \in Nat : i + (j + k) = j + (i + k)
      OBVIOUS
    <3>7. SizeOf[c] + (SizeOf[b] + Bytes((s \ {b}) \ {c}))
            = SizeOf[b] + (SizeOf[c] + Bytes((s \ {b}) \ {c}))
      BY <3>4, <3>5, <3>6
    <3> QED
      BY <1>6, <3>1, <3>2, <3>3, <3>7
  <2> QED
    BY <2>1, <2>2
<1> QED
  BY <1>2, <1>7, <1>8

-----------------------------------------------------------------------------
(* The statistics *)

WriteOps    == AddOps \cup {"gc"}
WritePoints == PutPoints \cup GCPoints

\* Where stats is not what the block files say, and where only its file is not.
Off     == {"count", "total", "uncount", "store", "cut"}
Unsaved == {"save", "resave"}

\* What a call that is changing a block and the counters has done so far.
Account(fr) ==
  /\ fr.at = "write" => fr.blk \notin blocks
  /\ fr.at = "count" => /\ stats.blocks + 1 = Cardinality(blocks)
                        /\ stats.bytes + SizeOf[fr.blk] = Bytes(blocks)
  /\ fr.at = "total" => /\ stats.blocks = Cardinality(blocks)
                        /\ fr.seen.bytes = Bytes(blocks)
  /\ fr.at = "uncount" => /\ stats.blocks = Cardinality(blocks) + 1
                          /\ stats.bytes = Bytes(blocks) + SizeOf[fr.blk]
  /\ fr.at = "store" => /\ fr.seen.blocks = Cardinality(blocks)
                        /\ stats.bytes = Bytes(blocks) + SizeOf[fr.blk]
  /\ fr.at = "cut" => /\ stats.blocks = Cardinality(blocks)
                      /\ fr.seen.bytes = Bytes(blocks)

StatInv ==
  /\ \A t \in Callers : Account(call[t])
  /\ (\A t \in Callers : call[t].at \notin Off) => stats = Counted
  /\ (\A t \in Callers : call[t].at \notin Off \cup Unsaved) /\ blocksOpen =>
       savedStats \in {stats, Missing}

LEMMA StatInit == Init => StatInv
<1> SUFFICES ASSUME Init PROVE StatInv
  OBVIOUS
<1>1. Counted = NoStats
  <2>1. Cardinality({}) = 0 /\ Bytes({}) = 0
    BY FS_EmptySet, BytesRecursion
  <2> QED
    BY <2>1 DEF Init, Counted, NoStats
<1> QED
  BY <1>1 DEF Init, StatInv, Account, IdleFrame

\* A step that leaves blocks and counters alone, of a call that is not changing
\* them and does not begin to.
LEMMA StatQuiet ==
  ASSUME StatInv, NEW t \in Callers, \A u \in Callers \ {t} : call'[u] = call[u],
         UnchangedBlocks, blocksOpen' => blocksOpen,
         call[t].at \notin Off \cup Unsaved, Account(call'[t])
  PROVE  StatInv'
<1>1. \A u \in Callers : Account(call'[u])
  BY DEF StatInv
<1>2. \A u \in Callers : Account(call[u])'
  BY <1>1 DEF Account, UnchangedBlocks
<1>3. /\ (\A u \in Callers : call'[u].at \notin Off) => \A u \in Callers : call[u].at \notin Off
      /\ (\A u \in Callers : call'[u].at \notin Off \cup Unsaved) =>
           \A u \in Callers : call[u].at \notin Off \cup Unsaved
  OBVIOUS
<1>4. Counted' = Counted
  BY DEF Counted, UnchangedBlocks
<1> QED
  BY <1>2, <1>3, <1>4 DEF StatInv, UnchangedBlocks

\* Where one caller stores and collects, whoever is at a block is alone with it.
LEMMA OneWrites ==
  ASSUME Alone(WriteOps), OpInv, CollectionInv, NEW t \in Callers, call[t].at \in WritePoints
  PROVE  \A u \in Callers \ {t} : call[u].at \notin WritePoints
<1>1. \A u \in Callers : call[u].at \in WritePoints => call[u].op \in Ops[u] \cap WriteOps
  <2> TAKE u \in Callers
  <2>1. CASE call[u].at \in PutPoints
    BY <2>1 DEF OpInv, OpOK, PutPoints, WriteOps
  <2>2. CASE call[u].at \in GCPoints
    BY <2>2 DEF OpInv, OpOK, CollectionInv, WriteOps
  <2> QED
    BY <2>1, <2>2 DEF WritePoints
<1> QED
  BY <1>1 DEF Alone

\* A step of a call that is alone with the blocks.
LEMMA StatAlone ==
  ASSUME Alone(WriteOps), OpInv, CollectionInv, StatInv, NEW t \in Callers,
         call[t].at \in WritePoints, \A u \in Callers \ {t} : call'[u] = call[u],
         Account(call[t])',
         call'[t].at \notin Off => stats' = Counted',
         call'[t].at \notin Off \cup Unsaved /\ blocksOpen' => savedStats' \in {stats', Missing}
  PROVE  StatInv'
<1>1. \A u \in Callers \ {t} : call'[u] = call[u] /\ call[u].at \notin WritePoints
  BY OneWrites
<1>2. \A u \in Callers \ {t} : Account(call[u])'
  BY <1>1 DEF Account, WritePoints, PutPoints, GCPoints
<1>3. \A u \in Callers : Account(call[u])'
  BY <1>2
<1> QED
  BY <1>3 DEF StatInv

\* What holds while no other call is at a block.
LEMMA AloneFacts ==
  ASSUME Alone(WriteOps), OpInv, CollectionInv, StatInv, NEW t \in Callers,
         call[t].at \in WritePoints
  PROVE  /\ call[t].at \notin Off => stats = Counted
         /\ call[t].at \notin Off \cup Unsaved /\ blocksOpen => savedStats \in {stats, Missing}
<1>1. \A u \in Callers \ {t} : call[u].at \notin Off \cup Unsaved
  BY OneWrites DEF WritePoints, PutPoints, GCPoints, Off, Unsaved
<1>2. call[t].at \notin Off => \A u \in Callers : call[u].at \notin Off
  BY <1>1
<1>3. call[t].at \notin Off \cup Unsaved => \A u \in Callers : call[u].at \notin Off \cup Unsaved
  BY <1>1
<1> QED
  BY <1>2, <1>3 DEF StatInv

\* How the counters change with the set of block files.
LEMMA CountedOps ==
  ASSUME TypeOK, NEW b \in Blocks
  PROVE  /\ Cardinality(blocks) \in Nat /\ Bytes(blocks) \in Nat /\ SizeOf[b] \in Nat
         /\ b \notin blocks => /\ Cardinality(blocks \cup {b}) = Cardinality(blocks) + 1
                               /\ Bytes(blocks \cup {b}) = Bytes(blocks) + SizeOf[b]
         /\ b \in blocks => /\ Cardinality(blocks) = Cardinality(blocks \ {b}) + 1
                            /\ Bytes(blocks) = Bytes(blocks \ {b}) + SizeOf[b]
<1>1. blocks \in SUBSET Blocks /\ IsFiniteSet(blocks) /\ SizeOf[b] \in Nat
  BY SubsetFacts, StoreAssumption DEF TypeOK
<1>2. \A j, k \in Nat : j + k = k + j
  OBVIOUS
<1>3. ASSUME b \notin blocks
      PROVE  /\ Cardinality(blocks \cup {b}) = Cardinality(blocks) + 1
             /\ Bytes(blocks \cup {b}) = Bytes(blocks) + SizeOf[b]
  <2>1. Cardinality(blocks \cup {b}) = Cardinality(blocks) + 1
    BY <1>1, <1>3, FS_AddElement
  <2>2. blocks \cup {b} \in SUBSET Blocks /\ (blocks \cup {b}) \ {b} = blocks
    BY <1>1, <1>3
  <2>3. Bytes(blocks \cup {b}) = SizeOf[b] + Bytes(blocks) /\ Bytes(blocks) \in Nat
    BY <1>1, <2>2, BytesRemove
  <2> QED
    BY <1>1, <1>2, <2>1, <2>3
<1>4. ASSUME b \in blocks
      PROVE  /\ Cardinality(blocks) = Cardinality(blocks \ {b}) + 1
             /\ Bytes(blocks) = Bytes(blocks \ {b}) + SizeOf[b]
  <2>1. Cardinality(blocks \ {b}) = Cardinality(blocks) - 1 /\ Cardinality(blocks) \in Nat
    BY <1>1, <1>4, SubsetFacts
  <2>2. Bytes(blocks) = SizeOf[b] + Bytes(blocks \ {b}) /\ Bytes(blocks \ {b}) \in Nat
    BY <1>1, <1>4, BytesRemove
  <2> QED
    BY <1>1, <1>2, <2>1, <2>2
<1> QED
  BY <1>1, <1>3, <1>4, SubsetFacts, BytesRemove

\* The file system saves the counters as they are.
LEMMA Saved ==
  ASSUME "save_stats" \notin Faults, SaveStats
  PROVE  savedStats' = stats
BY DEF SaveStats

\* Calls that change neither block nor counter.
LEMMA PlainStats ==
  ASSUME TypeOK, StatInv, NEW t \in Callers, \A u \in Callers \ {t} : call'[u] = call[u],
         \/ JobRaises(t) \/ CheckCapacity(t) \/ PutFails(t) \/ PinInsert(t) \/ PinRemove(t)
         \/ PinsDump(t) \/ PinsWriteTmp(t) \/ PinsReplace(t) \/ PinsNotSaved(t)
         \/ Mark(t) \/ Sweep(t) \/ (\E b \in Blocks : DeleteProbe(t, b)) \/ GCDone(t)
         \/ GetProbe(t) \/ GetRead(t) \/ ClosePins(t)
  PROVE  StatInv'
<1> DEFINE Still(p) == p \notin Off \cup {"write"}
<1>0. call[t] \in Frame
  BY DEF TypeOK
<1>1. UnchangedBlocks /\ (blocksOpen' => blocksOpen) /\ call[t].at \notin Off \cup Unsaved
  <2> USE DEF UnchangedLife, Start, In, Off, Unsaved
  <2>1. CASE JobRaises(t)
    <3>1. call[t].at \in {"capacity", "exists", "sweep", "probe", "pin", "unpin", "mark",
                         "chunk", "victim"}
      BY <2>1 DEF JobRaises, Closed, Overtaken
    <3> QED
      BY <2>1, <3>1 DEF JobRaises, Closed, Overtaken
  <2>2. CASE \/ PinInsert(t) \/ PinRemove(t) \/ PinsDump(t) \/ PinsWriteTmp(t)
             \/ PinsReplace(t) \/ PinsNotSaved(t) \/ ClosePins(t)
    BY <2>2 DEF PinInsert, PinRemove, PinsDump, PinsWriteTmp, PinsReplace, PinsNotSaved, ClosePins
  <2>3. CASE Mark(t) \/ Sweep(t) \/ GCDone(t) \/ GetProbe(t) \/ GetRead(t)
    BY <2>3 DEF Mark, Sweep, GCDone, GetProbe, GetRead
  <2>4. ASSUME NEW b \in Blocks, DeleteProbe(t, b)
        PROVE  UnchangedBlocks /\ (blocksOpen' => blocksOpen) /\ call[t].at \notin Off \cup Unsaved
    BY <2>4 DEF DeleteProbe
  <2>5. CASE CheckCapacity(t) \/ PutFails(t)
    <3>1. /\ call[t].at \in {"capacity", "write"}
          /\ UnchangedBlocks /\ UNCHANGED <<running, blocksOpen, pinsOpen, boots>>
      BY <2>5 DEF CheckCapacity, PutFails
    <3> QED
      BY <3>1
  <2> QED
    BY <2>1, <2>2, <2>3, <2>4, <2>5
<1> SUFFICES Still(call'[t].at)
  <2>1. Still(call'[t].at) => Account(call'[t])
    BY DEF Account, Off
  <2> QED
    BY <1>1, <2>1, StatQuiet
<1>2. ASSUME NEW o \in {"none", "ok", "failed", "full", "missing", "os_error"}, Return(t, o)
      PROVE  Still(call'[t].at)
  BY <1>2, ReturnType DEF Off
<1>3. ASSUME NEW p \in (Queued \cup Working) \ (Off \cup {"write"}), Goto(t, p)
      PROVE  Still(call'[t].at)
  BY <1>3, GotoAt
<1> USE DEF Queued, Working, Off
<1>4. CASE JobRaises(t)
  BY <1>2, <1>4 DEF JobRaises, Closed, Overtaken
<1>5. CASE CheckCapacity(t)
  <2>1. CASE \E b \in call[t].todo :
          call' = [call EXCEPT ![t].at = "exists", ![t].blk = b, ![t].todo = @ \ {b}]
    BY <1>0, <2>1 DEF TypeOK, Frame
  <2> QED
    BY <1>2, <1>3, <1>5, <2>1 DEF CheckCapacity
<1>6. CASE PutFails(t) \/ PinInsert(t) \/ PinRemove(t)
  BY <1>2, <1>3, <1>6 DEF PutFails, PinInsert, PinRemove
<1>7. CASE PinsDump(t)
  BY <1>0, <1>7 DEF PinsDump, TypeOK, Frame
<1>8. CASE PinsWriteTmp(t) \/ PinsReplace(t) \/ PinsNotSaved(t)
  BY <1>2, <1>3, <1>8 DEF PinsWriteTmp, PinsReplace, PinsNotSaved
<1>9. CASE Mark(t) \/ Sweep(t)
  BY <1>0, <1>9 DEF Mark, Sweep, TypeOK, Frame
<1>10. ASSUME NEW b \in Blocks, DeleteProbe(t, b)
       PROVE  Still(call'[t].at)
  <2>1. call'[t].at \in {"unlink", "victim"}
    BY <1>0, <1>10 DEF DeleteProbe, TypeOK, Frame
  <2> QED
    BY <2>1
<1>11. CASE GCDone(t) \/ GetProbe(t) \/ GetRead(t) \/ ClosePins(t)
  BY <1>2, <1>3, <1>11 DEF GCDone, GetProbe, GetRead, ClosePins
<1> QED
  BY <1>4, <1>5, <1>6, <1>7, <1>8, <1>9, <1>10, <1>11

LEMMA PutStats ==
  ASSUME Alone(WriteOps), "save_stats" \notin Faults, TypeOK, OpInv, CollectionInv, StatInv,
         NEW t \in Callers, \A u \in Callers \ {t} : call'[u] = call[u],
         PutProbe(t) \/ PutWrite(t) \/ PutCount(t) \/ PutTotal(t) \/ PutSave(t)
  PROVE  StatInv'
<1> DEFINE b == call[t].blk
<1>0. /\ call[t] \in Frame /\ b \in Blocks /\ call[t].seen \in Stats /\ stats \in Stats
      /\ call[t].at \in WritePoints
  BY DEF TypeOK, Frame, PutProbe, PutWrite, PutCount, PutTotal, PutSave, Start, In, WritePoints,
     PutPoints
<1>1. Account(call[t])
  BY DEF StatInv
<1>2. Counted = [blocks |-> Cardinality(blocks), bytes |-> Bytes(blocks)]
  BY DEF Counted
<1>3. CASE PutProbe(t)
  <2>1. UnchangedBlocks /\ UNCHANGED blocksOpen /\ call[t].at \notin Off \cup Unsaved
    BY <1>3 DEF PutProbe, UnchangedLife, Start, In, Off, Unsaved
  <2>2. CASE PutReturns(t)
    <3>1. Account(call'[t])
      BY <2>2, PutReturnsType DEF Account
    <3> QED
      BY <2>1, <3>1, StatQuiet
  <2>3. CASE b \notin blocks /\ Goto(t, "write")
    <3>1. call'[t].at = "write" /\ call'[t].blk = b
      BY <1>0, <2>3 DEF Goto, TypeOK, Frame
    <3>2. Account(call'[t])
      BY <2>3, <3>1 DEF Account
    <3> QED
      BY <2>1, <3>2, StatQuiet
  <2> QED
    BY <1>3, <2>2, <2>3 DEF PutProbe
<1>4. CASE PutWrite(t)
  <2>1. b \notin blocks /\ stats = Counted /\ call[t].at = "write"
    BY <1>0, <1>1, <1>4, AloneFacts DEF PutWrite, In, Account, Off
  <2>2. call'[t].at = "count" /\ call'[t].blk = b
    BY <1>0, <1>4 DEF PutWrite, Goto, TypeOK, Frame
  <2>3. blocks' = blocks \cup {b} /\ stats' = stats
    BY <1>4 DEF PutWrite
  <2>4. /\ Cardinality(blocks') = stats'.blocks + 1
        /\ Bytes(blocks') = stats'.bytes + SizeOf[b]
    BY <1>0, <1>2, <2>1, <2>3, CountedOps
  <2>5. Account(call[t])'
    BY <2>2, <2>4 DEF Account
  <2> QED
    BY <1>0, <2>2, <2>5, StatAlone DEF Off
<1>5. CASE PutCount(t)
  <2>1. /\ stats.blocks + 1 = Cardinality(blocks)
        /\ stats.bytes + SizeOf[b] = Bytes(blocks)
    BY <1>1, <1>5 DEF PutCount, In, Account
  <2>2. call'[t].at = "total" /\ call'[t].seen.bytes = stats.bytes + SizeOf[b]
    BY <1>0, <1>5 DEF PutCount, TypeOK, Frame, Stats
  <2>3. blocks' = blocks /\ stats'.blocks = stats.blocks + 1
    BY <1>0, <1>5 DEF PutCount, Stats
  <2>4. Account(call[t])'
    BY <2>1, <2>2, <2>3 DEF Account
  <2> QED
    BY <1>0, <2>2, <2>4, StatAlone DEF Off
<1>6. CASE PutTotal(t)
  <2>1. stats.blocks = Cardinality(blocks) /\ call[t].seen.bytes = Bytes(blocks)
    BY <1>1, <1>6 DEF PutTotal, In, Account
  <2>2. call'[t].at = "save"
    BY <1>0, <1>6 DEF PutTotal, TypeOK, Frame
  <2>3. blocks' = blocks /\ stats' = [blocks |-> stats.blocks, bytes |-> call[t].seen.bytes]
    BY <1>0, <1>6 DEF PutTotal, Stats
  <2>4. stats' = Counted'
    BY <2>1, <2>3 DEF Counted
  <2>5. Account(call[t])'
    BY <2>2 DEF Account
  <2> QED
    BY <1>0, <2>2, <2>4, <2>5, StatAlone DEF Unsaved
<1>7. CASE PutSave(t)
  <2>1. stats = Counted
    BY <1>0, <1>7, AloneFacts DEF PutSave, In, Off
  <2>2. blocks' = blocks /\ stats' = stats /\ savedStats' = stats
    BY <1>7, Saved DEF PutSave
  <2>3. Account(call[t])'
    BY <1>7, PutReturnsType DEF PutSave, Account
  <2>4. Counted' = Counted
    BY <2>2 DEF Counted
  <2> QED
    BY <1>0, <2>1, <2>2, <2>3, <2>4, StatAlone
<1> QED
  BY <1>3, <1>4, <1>5, <1>6, <1>7

LEMMA DeleteStats ==
  ASSUME Alone(WriteOps), "save_stats" \notin Faults, TypeOK, OpInv, CollectionInv, StatInv,
         NEW t \in Callers, \A u \in Callers \ {t} : call'[u] = call[u],
         \/ DeleteUnlink(t) \/ DeleteUncount(t) \/ DeleteStore(t) \/ DeleteCut(t)
         \/ DeleteSave(t) \/ GCSave(t)
  PROVE  StatInv'
<1> DEFINE b == call[t].blk
<1>0. /\ call[t] \in Frame /\ b \in Blocks /\ call[t].seen \in Stats /\ stats \in Stats
      /\ call[t].at \in WritePoints
  BY DEF TypeOK, Frame, DeleteUnlink, DeleteUncount, DeleteStore, DeleteCut, DeleteSave, GCSave,
     In, WritePoints, GCPoints
<1>1. Account(call[t])
  BY DEF StatInv
<1>2. Cardinality(blocks) \in Nat /\ Bytes(blocks) \in Nat /\ SizeOf[b] \in Nat
  BY <1>0, CountedOps
<1>3. CASE DeleteUnlink(t)
  <2>1. CASE Return(t, "failed") /\ UNCHANGED blocks
    <3>1. UnchangedBlocks /\ UNCHANGED blocksOpen /\ call[t].at \notin Off \cup Unsaved
      BY <1>3, <2>1 DEF DeleteUnlink, UnchangedLife, UnchangedBlocks, In, Off, Unsaved
    <3>2. Account(call'[t])
      BY <2>1, ReturnType DEF Account
    <3> QED
      BY <3>1, <3>2, StatQuiet
  <2>2. CASE b \in blocks /\ Goto(t, "uncount") /\ blocks' = blocks \ {b}
    <3>1. stats = Counted /\ stats' = stats
      BY <1>0, <1>3, AloneFacts DEF DeleteUnlink, In, Off
    <3>2. call'[t].at = "uncount" /\ call'[t].blk = b
      BY <1>0, <2>2 DEF Goto, TypeOK, Frame
    <3>3. /\ stats'.blocks = Cardinality(blocks') + 1
          /\ stats'.bytes = Bytes(blocks') + SizeOf[b]
      BY <1>0, <2>2, <3>1, CountedOps DEF Counted
    <3>4. Account(call[t])'
      BY <3>2, <3>3 DEF Account
    <3> QED
      BY <1>0, <3>2, <3>4, StatAlone DEF Off
  <2> QED
    BY <1>3, <2>1, <2>2 DEF DeleteUnlink
<1>4. CASE DeleteUncount(t)
  <2>1. stats.blocks = Cardinality(blocks) + 1 /\ stats.bytes = Bytes(blocks) + SizeOf[b]
    BY <1>1, <1>4 DEF DeleteUncount, In, Account
  <2>2. /\ call'[t].at = "store" /\ call'[t].blk = b
        /\ call'[t].seen.blocks = Minus(stats.blocks, 1)
    BY <1>0, <1>4 DEF DeleteUncount, TypeOK, Frame, Stats
  <2>3. Minus(stats.blocks, 1) = Cardinality(blocks)
    BY <1>2, <2>1 DEF Minus
  <2>4. blocks' = blocks /\ stats' = stats
    BY <1>4 DEF DeleteUncount, UnchangedBlocks
  <2>5. Account(call[t])'
    BY <2>1, <2>2, <2>3, <2>4 DEF Account
  <2> QED
    BY <1>0, <2>2, <2>5, StatAlone DEF Off
<1>5. CASE DeleteStore(t)
  <2>1. call[t].seen.blocks = Cardinality(blocks) /\ stats.bytes = Bytes(blocks) + SizeOf[b]
    BY <1>1, <1>5 DEF DeleteStore, In, Account
  <2>2. call'[t].at = "cut" /\ call'[t].seen.bytes = Minus(stats.bytes, SizeOf[b])
    BY <1>0, <1>5 DEF DeleteStore, TypeOK, Frame
  <2>3. Minus(stats.bytes, SizeOf[b]) = Bytes(blocks)
    BY <1>2, <2>1 DEF Minus
  <2>4. blocks' = blocks /\ stats'.blocks = call[t].seen.blocks
    BY <1>0, <1>5 DEF DeleteStore, Stats
  <2>5. Account(call[t])'
    BY <2>1, <2>2, <2>3, <2>4 DEF Account
  <2> QED
    BY <1>0, <2>2, <2>5, StatAlone DEF Off
<1>6. CASE DeleteCut(t)
  <2>1. stats.blocks = Cardinality(blocks) /\ call[t].seen.bytes = Bytes(blocks)
    BY <1>1, <1>6 DEF DeleteCut, In, Account
  <2>2. call'[t].at = "resave"
    BY <1>0, <1>6 DEF DeleteCut, TypeOK, Frame
  <2>3. blocks' = blocks /\ stats' = [blocks |-> stats.blocks, bytes |-> call[t].seen.bytes]
    BY <1>0, <1>6 DEF DeleteCut, Stats
  <2>4. stats' = Counted'
    BY <2>1, <2>3 DEF Counted
  <2>5. Account(call[t])'
    BY <2>2 DEF Account
  <2> QED
    BY <1>0, <2>2, <2>4, <2>5, StatAlone DEF Unsaved
<1>7. CASE DeleteSave(t) \/ GCSave(t)
  <2>1. stats = Counted
    BY <1>0, <1>7, AloneFacts DEF DeleteSave, GCSave, In, Off
  <2>2. blocks' = blocks /\ stats' = stats /\ savedStats' = stats
    BY <1>7, Saved DEF DeleteSave, GCSave
  <2>3. call'[t].at \in {"victim", "idle"}
    BY <1>7, GotoAt, ReturnType DEF DeleteSave, GCSave, Working
  <2>4. Account(call[t])'
    BY <2>3 DEF Account
  <2>5. Counted' = Counted
    BY <2>2 DEF Counted
  <2> QED
    BY <1>0, <2>1, <2>2, <2>4, <2>5, StatAlone
<1> QED
  BY <1>3, <1>4, <1>5, <1>6, <1>7

\* stop() saves the counters of whatever put is under way; the store is closed.
LEMMA CloseStats ==
  ASSUME TypeOK, StatInv, NEW t \in Callers, \A u \in Callers \ {t} : call'[u] = call[u],
         CloseBlocks(t)
  PROVE  StatInv'
<1>1. call[t].at = "close_blocks" /\ blocksOpen' = FALSE /\ UNCHANGED <<blocks, stats>>
  BY DEF CloseBlocks, Start
<1>2. call'[t].at = "close_pins"
  BY GotoAt DEF CloseBlocks, Queued
<1>3. \A u \in Callers : Account(call'[u])
  BY <1>2 DEF StatInv, Account
<1>4. \A u \in Callers : Account(call[u])'
  BY <1>1, <1>3 DEF Account
<1>5. (\A u \in Callers : call'[u].at \notin Off) => \A u \in Callers : call[u].at \notin Off
  BY <1>1 DEF Off
<1>6. Counted' = Counted
  BY <1>1 DEF Counted
<1> QED
  BY <1>1, <1>4, <1>5, <1>6 DEF StatInv

LEMMA BeginStats ==
  ASSUME TypeOK, StatInv, NEW t \in Callers, Begin(t)
  PROVE  StatInv'
<1>1. ASSUME NEW name \in OpNames, NEW b \in Blocks, NEW p \in Queued, NEW rest \in SUBSET Blocks,
             Enter(t, name, b, p, rest), UNCHANGED blocksOpen
      PROVE  StatInv'
  <2>1. call[t].at = "idle" /\ call'[t].at \in Queued
    BY <1>1, EnterType
  <2>2. Account(call'[t])
    BY <2>1 DEF Account, Queued
  <2>3. call[t].at \notin Off \cup Unsaved
    BY <2>1 DEF Off, Unsaved
  <2> QED
    BY <1>1, <2>2, <2>3, EnterType, StatQuiet
<1> USE DEF OpNames, Queued, UnchangedLife
<1>2. CASE \E b \in Blocks \ Files : Add(t, b)
  BY <1>1, <1>2 DEF Add
<1>3. CASE \E m \in Files : AddFile(t, m)
  <2>1. \A m \in Files : m \in Blocks /\ ChunksOf[m] \in SUBSET Blocks
    BY StoreAssumption
  <2> QED
    BY <1>1, <1>3, <2>1 DEF AddFile
<1>4. CASE \E b \in Blocks : Get(t, b) \/ Pin(t, b) \/ Unpin(t, b)
  BY <1>1, <1>4 DEF Get, Pin, Unpin
<1>5. CASE GC(t)
  BY <1>1, <1>5, AnyBlockType DEF GC
<1>6. CASE Stop(t)
  BY <1>1, <1>6, AnyBlockType DEF Stop
<1> QED
  BY <1>2, <1>3, <1>4, <1>5, <1>6 DEF Begin

\* No call counts the processes.
LEMMA BootsStay ==
  ASSUME NEW t \in Callers, Begin(t) \/ Work(t)
  PROVE  boots' = boots
<1> USE DEF UnchangedLife
<1>1. CASE Begin(t)
  BY <1>1 DEF Begin, Add, AddFile, Get, Pin, Unpin, GC, Stop
<1>2. CASE JobRaises(t) \/ CheckCapacity(t) \/ PutProbe(t) \/ PutWrite(t) \/ PutFails(t)
           \/ PutCount(t) \/ PutTotal(t) \/ PutSave(t)
  BY <1>2 DEF JobRaises, CheckCapacity, PutProbe, PutWrite, PutFails, PutCount, PutTotal, PutSave
<1>3. CASE PinInsert(t) \/ PinRemove(t) \/ PinsDump(t) \/ PinsWriteTmp(t) \/ PinsReplace(t)
           \/ PinsNotSaved(t) \/ CloseBlocks(t) \/ ClosePins(t)
  BY <1>3 DEF PinInsert, PinRemove, PinsDump, PinsWriteTmp, PinsReplace, PinsNotSaved,
              CloseBlocks, ClosePins
<1>4. CASE Mark(t) \/ Sweep(t) \/ (\E b \in Blocks : DeleteProbe(t, b)) \/ DeleteUnlink(t)
           \/ DeleteUncount(t) \/ DeleteStore(t) \/ DeleteCut(t) \/ DeleteSave(t)
  BY <1>4 DEF Mark, Sweep, DeleteProbe, DeleteUnlink, DeleteUncount, DeleteStore, DeleteCut,
              DeleteSave
<1>5. CASE GCDone(t) \/ GCSave(t) \/ GetProbe(t) \/ GetRead(t)
  BY <1>5 DEF GCDone, GCSave, GetProbe, GetRead
<1> QED
  BY <1>1, <1>2, <1>3, <1>4, <1>5 DEF Work

\* Where one caller stores and collects, and the file system saves the counters,
\* the counters and their file are those of the block files whenever no call is
\* under way, for any number of other callers that read, pin, unpin and close,
\* and whatever put, unlink or read fails, in the first process: StatsExact does
\* not speak of those that start after a crash.
THEOREM StatsKept ==
  ASSUME Alone(WriteOps), "save_stats" \notin Faults
  PROVE  Spec => []StatsExact
<1>1. ASSUME TypeOK, OpInv, CollectionInv, StatInv, NEW t \in Callers, Work(t)
      PROVE  StatInv'
  <2>1. \A u \in Callers \ {t} : call'[u] = call[u]
    BY <1>1, WorkOps
  <2> QED
    BY <1>1, <2>1, PlainStats, PutStats, DeleteStats, CloseStats DEF Work
<1>2. TypeOK /\ OpInv /\ CollectionInv /\ (boots = 1 => StatInv) /\ [Next]_vars
        => (boots = 1 => StatInv)'
  <2> SUFFICES ASSUME TypeOK, OpInv, CollectionInv, boots = 1 => StatInv, [Next]_vars, boots' = 1
               PROVE  StatInv'
    OBVIOUS
  <2>1. CASE UNCHANGED vars
    BY <2>1 DEF vars, StatInv, Account, Counted
  <2>2. CASE Restart
    BY <2>2 DEF TypeOK, Restart
  <2>3. ASSUME NEW t \in Callers, Begin(t) \/ Work(t)
        PROVE  StatInv'
    <3>1. UNCHANGED boots
      BY <2>3, BootsStay
    <3> QED
      BY <3>1, <2>3, <1>1, BeginStats
  <2> QED
    BY <2>1, <2>2, <2>3 DEF Next
<1>3. (boots = 1 => StatInv) => StatsExact
  BY DEF StatInv, StatsExact, Quiescent, Off, Unsaved
<1> QED
  BY StatInit, TypeCorrect, CollectionCorrect, OpAlways, <1>2, <1>3, PTL DEF Spec

=============================================================================
