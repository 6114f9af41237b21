------------------------------ MODULE IpfsStore ------------------------------
(***************************************************************************)
(* The content store of a Neuralis node: IPFSStore (ipfs_store.py) over    *)
(* BlockStore (blockstore.py) and PinManager (pins.py).                    *)
(*                                                                         *)
(* Every API call is a coroutine on the event loop that hands its work to  *)
(* a pool of `Workers' threads, one job at a time (run_in_executor).  The  *)
(* jobs of different calls run in parallel and share, without a lock, the  *)
(* block files, the statistics, the dictionary of pins and the two files   *)
(* that persist them.  A step of this module is one access of a worker to  *)
(* that shared state, so calls interleave inside their jobs as well as     *)
(* between them.                                                           *)
(*                                                                         *)
(* A CID is a member of Blocks.  The members of Files are the CIDs of the  *)
(* manifests that add_file builds; ChunksOf gives the blocks one links.    *)
(***************************************************************************)
EXTENDS Integers, FiniteSets, FiniteSetsExt

CONSTANTS
  Callers,      \* coroutines that use the store
  Blocks,       \* the CIDs of all blocks
  Files,        \* the CIDs that are file manifests
  ChunksOf,     \* the chunks a manifest links
  SizeOf,       \* length of each block
  MaxBytes,     \* max_storage_gb, in the unit of SizeOf
  Workers,      \* threads of the executor
  Ops,          \* the API operations each caller uses
  MaxBoots,     \* bound: how many processes run one after the other
  Corrupt,      \* a blockstore.json that json.loads rejects
  Missing,      \* no blockstore.json at all
  Faults        \* the accesses to the file system that may fail

OpNames == {"add", "add_unpinned", "add_file", "get", "pin", "unpin", "gc", "stop"}

ASSUME StoreAssumption ==
  /\ IsFiniteSet(Callers) /\ IsFiniteSet(Blocks) /\ Blocks # {}
  /\ Files \subseteq Blocks
  /\ ChunksOf \in [Files -> SUBSET (Blocks \ Files)]
  /\ SizeOf \in [Blocks -> Nat]
  /\ MaxBytes \in Nat
  /\ Workers \in Nat \ {0}
  /\ Ops \in [Callers -> SUBSET OpNames]
  /\ MaxBoots \in Nat \ {0}
  /\ Faults \subseteq {"put", "unlink", "read", "save_stats", "save_pins"}

VARIABLES
  blocks,       \* the block files on disk
  stats,        \* BlockStore._stats
  savedStats,   \* meta/blockstore.json
  pins,         \* keys of PinManager._pins
  tmpPins,      \* pins/pins.tmp: {}, or {its contents}
  savedPins,    \* pins/pins.json
  running,      \* IPFSStore._running
  blocksOpen,   \* BlockStore._open
  pinsOpen,     \* PinManager._open
  boots,        \* processes started so far
  call          \* the frame of each caller's current call

vars == <<blocks, stats, savedStats, pins, tmpPins, savedPins,
          running, blocksOpen, pinsOpen, boots, call>>

Stats   == [blocks : Nat, bytes : Nat]
NoStats == [blocks |-> 0, bytes |-> 0]

\* Points where a call waits for a worker to take up its next job.
Queued  == {"capacity", "exists", "pin", "unpin", "mark", "sweep", "probe",
            "close_blocks", "close_pins"}
\* Points inside a job, where the call occupies a worker.
Working == {"chunk", "write", "count", "total", "save", "dump", "tmp", "replace",
            "victim", "unlink", "uncount", "store", "cut", "resave", "finish", "read"}

Frame == [at   : {"idle"} \cup Queued \cup Working,
          op   : OpNames,
          cid  : Blocks,            \* the CID passed in, or to be returned
          blk  : Blocks,            \* the block the current job handles
          todo : SUBSET Blocks,     \* what the job has still to handle
          snap : SUBSET Blocks,     \* a copy of the pins it took earlier
          seen : Stats,             \* new counters not yet written back
          out  : {"none", "ok", "failed", "full", "missing", "os_error"}]

AnyBlock  == CHOOSE b \in Blocks : TRUE
IdleFrame == [at |-> "idle", op |-> "get", cid |-> AnyBlock, blk |-> AnyBlock,
              todo |-> {}, snap |-> {}, seen |-> NoStats, out |-> "none"]

TypeOK ==
  /\ blocks \subseteq Blocks
  /\ stats \in Stats
  /\ savedStats \in Stats \cup {Corrupt, Missing}
  /\ pins \subseteq Blocks
  /\ tmpPins \in SUBSET SUBSET Blocks
  /\ savedPins \subseteq Blocks
  /\ running \in BOOLEAN /\ blocksOpen \in BOOLEAN /\ pinsOpen \in BOOLEAN
  /\ boots \in 1..MaxBoots
  /\ call \in [Callers -> Frame]

Init ==
  /\ blocks = {} /\ stats = NoStats /\ savedStats = Missing
  /\ pins = {} /\ tmpPins = {} /\ savedPins = {}
  /\ running = TRUE /\ blocksOpen = TRUE /\ pinsOpen = TRUE
  /\ boots = 1
  /\ call = [t \in Callers |-> IdleFrame]

-----------------------------------------------------------------------------
(* Frames and jobs *)

Bytes(S) == MapThenSumSet(LAMBDA b : SizeOf[b], S)

\* max(0, n - m)
Minus(n, m) == IF n > m THEN n - m ELSE 0

Goto(t, point) == call' = [call EXCEPT ![t].at = point]

Return(t, outcome) == call' = [call EXCEPT ![t] = [IdleFrame EXCEPT !.out = outcome]]

\* Call t is at `point', inside the job it is running.
In(t, point) == call[t].at = point

\* A worker takes up the job that call t has queued.
Start(t, point) ==
  /\ call[t].at = point
  /\ Cardinality({u \in Callers : call[u].at \in Working}) < Workers

\* _save_stats swallows what goes wrong, which leaves the old file or a
\* truncated one.
SaveStats ==
  \/ savedStats' = stats
  \/ "save_stats" \in Faults /\ savedStats' \in {savedStats, Corrupt}

UnchangedBlocks == UNCHANGED <<blocks, stats, savedStats>>
UnchangedPins   == UNCHANGED <<pins, tmpPins, savedPins>>
UnchangedLife   == UNCHANGED <<running, blocksOpen, pinsOpen, boots>>

\* _check_open raises RuntimeError.
Closed(t) ==
  \/ \E p \in {"capacity", "exists", "sweep", "probe"} : ~blocksOpen /\ Start(t, p)
  \/ \E p \in {"pin", "unpin", "mark"} : ~pinsOpen /\ Start(t, p)
  \/ \E p \in {"chunk", "victim"} : ~blocksOpen /\ In(t, p)

\* Another worker has just changed the pins, which pinned_cids goes through
\* without a copy, or has removed the pin that unpin found a moment ago.
Overtaken(t) == pinsOpen /\ \E u \in Callers \ {t} :
  /\ In(u, "dump") /\ call[u].op # "stop"
  /\ \/ Start(t, "mark")
     \/ Start(t, "unpin") /\ call[u].op = "unpin" /\ call[u].cid = call[t].cid

\* The job and with it the call fail.
JobRaises(t) ==
  /\ Closed(t) \/ Overtaken(t)
  /\ Return(t, "failed")
  /\ UnchangedBlocks /\ UnchangedPins /\ UnchangedLife

-----------------------------------------------------------------------------
(* Calls, up to their first await *)

Enter(t, name, b, point, rest) ==
  /\ name \in Ops[t] /\ call[t].at = "idle" /\ running
  /\ call' = [call EXCEPT ![t] = [IdleFrame EXCEPT
                !.at = point, !.op = name, !.cid = b, !.blk = b, !.todo = rest]]
  /\ UnchangedBlocks /\ UnchangedPins

Add(t, b) ==
  /\ \E name \in {"add", "add_unpinned"} : Enter(t, name, b, "capacity", {})
  /\ UnchangedLife

\* The manifest carries the time it was made, so its CID is new.
AddFile(t, m) ==
  /\ m \notin blocks \cup pins \cup savedPins
  /\ \A u \in Callers : call[u].at # "idle" => call[u].cid # m
  /\ Enter(t, "add_file", m, "capacity", ChunksOf[m])
  /\ UnchangedLife

Get(t, b)   == Enter(t, "get", b, "probe", {}) /\ UnchangedLife
Pin(t, b)   == Enter(t, "pin", b, "pin", {}) /\ UnchangedLife
Unpin(t, b) == Enter(t, "unpin", b, "unpin", {}) /\ UnchangedLife
GC(t)       == Enter(t, "gc", AnyBlock, "mark", {}) /\ UnchangedLife

Stop(t) ==
  /\ Enter(t, "stop", AnyBlock, "close_blocks", {})
  /\ running' = FALSE
  /\ UNCHANGED <<blocksOpen, pinsOpen, boots>>

-----------------------------------------------------------------------------
(* _check_capacity and BlockStore.put *)

\* What is admitted: for add_file the size of the file, manifest excluded.
Incoming(t) ==
  IF call[t].op = "add_file" THEN Bytes(call[t].todo) ELSE SizeOf[call[t].cid]

CheckCapacity(t) ==
  /\ Start(t, "capacity") /\ blocksOpen
  /\ IF stats.bytes + Incoming(t) > MaxBytes
     THEN Return(t, "full")
     ELSE IF call[t].todo = {}
          THEN Goto(t, "exists")
          ELSE \E b \in call[t].todo :
                 call' = [call EXCEPT ![t].at = "exists", ![t].blk = b,
                                      ![t].todo = @ \ {b}]
  /\ UnchangedBlocks /\ UnchangedPins /\ UnchangedLife

\* put returned: go on with the next chunk, the manifest, or the pin.
PutReturns(t) ==
  \/ \E b \in call[t].todo :
       call' = [call EXCEPT ![t].at = "chunk", ![t].blk = b, ![t].todo = @ \ {b}]
  \/ /\ call[t].todo = {} /\ call[t].blk # call[t].cid
     /\ call' = [call EXCEPT ![t].at = "exists", ![t].blk = call[t].cid]
  \/ /\ call[t].todo = {} /\ call[t].blk = call[t].cid
     /\ IF call[t].op = "add_unpinned" THEN Return(t, "ok") ELSE Goto(t, "pin")

\* Mutant of PutProbe: put does not ask whether the block is stored.
PutProbeBlind(t) ==
  /\ Start(t, "exists") \/ In(t, "chunk")
  /\ blocksOpen
  /\ Goto(t, "write")
  /\ UnchangedBlocks /\ UnchangedPins /\ UnchangedLife

PutProbe(t) ==
  /\ Start(t, "exists") \/ In(t, "chunk")
  /\ blocksOpen
  /\ IF call[t].blk \in blocks THEN PutReturns(t) ELSE Goto(t, "write")
  /\ UnchangedBlocks /\ UnchangedPins /\ UnchangedLife

\* os.replace moves the finished temporary file into place.
PutWrite(t) ==
  /\ In(t, "write")
  /\ blocks' = blocks \cup {call[t].blk}
  /\ Goto(t, "count")
  /\ UNCHANGED <<stats, savedStats>> /\ UnchangedPins /\ UnchangedLife

\* An error of mkstemp, write or os.replace: the temporary file is removed and
\* the exception ends the call, whatever it had stored before.
PutFails(t) ==
  /\ "put" \in Faults /\ In(t, "write")
  /\ Return(t, "os_error")
  /\ UnchangedBlocks /\ UnchangedPins /\ UnchangedLife

\* total_bytes is read, then len(data) is called, and the interpreter may
\* switch threads before the sum is assigned.
PutCount(t) ==
  /\ In(t, "count")
  /\ stats' = [stats EXCEPT !.blocks = @ + 1]
  /\ call' = [call EXCEPT ![t].at = "total",
                          ![t].seen.bytes = stats.bytes + SizeOf[call[t].blk]]
  /\ UNCHANGED <<blocks, savedStats>> /\ UnchangedPins /\ UnchangedLife

PutTotal(t) ==
  /\ In(t, "total")
  /\ stats' = [stats EXCEPT !.bytes = call[t].seen.bytes]
  /\ call' = [call EXCEPT ![t].at = "save", ![t].seen = NoStats]
  /\ UNCHANGED <<blocks, savedStats>> /\ UnchangedPins /\ UnchangedLife

PutSave(t) ==
  /\ In(t, "save")
  /\ SaveStats
  /\ PutReturns(t)
  /\ UNCHANGED <<blocks, stats>> /\ UnchangedPins /\ UnchangedLife

-----------------------------------------------------------------------------
(* PinManager.pin, unpin and _save *)

PinInsert(t) ==
  /\ Start(t, "pin") /\ pinsOpen
  /\ IF call[t].cid \in pins
     THEN Return(t, "ok") /\ UNCHANGED pins
     ELSE pins' = pins \cup {call[t].cid} /\ Goto(t, "dump")
  /\ UNCHANGED <<tmpPins, savedPins>> /\ UnchangedBlocks /\ UnchangedLife

\* Mutant of PinRemove: unpin does not save the dictionary.
PinRemoveUnsaved(t) ==
  /\ Start(t, "unpin") /\ pinsOpen
  /\ pins' = pins \ {call[t].cid}
  /\ Return(t, "ok")
  /\ UNCHANGED <<tmpPins, savedPins>> /\ UnchangedBlocks /\ UnchangedLife

PinRemove(t) ==
  /\ Start(t, "unpin") /\ pinsOpen
  /\ IF call[t].cid \in pins
     THEN pins' = pins \ {call[t].cid} /\ Goto(t, "dump")
     ELSE Return(t, "ok") /\ UNCHANGED pins
  /\ UNCHANGED <<tmpPins, savedPins>> /\ UnchangedBlocks /\ UnchangedLife

\* The dictionary is copied into a JSON document ...
PinsDump(t) ==
  /\ In(t, "dump")
  /\ call' = [call EXCEPT ![t].at = "tmp", ![t].snap = pins]
  /\ UnchangedPins /\ UnchangedBlocks /\ UnchangedLife

\* ... which is written to pins.tmp, the same name for every worker ...
PinsWriteTmp(t) ==
  /\ In(t, "tmp")
  /\ tmpPins' = {call[t].snap}
  /\ Goto(t, "replace")
  /\ UNCHANGED <<pins, savedPins>> /\ UnchangedBlocks /\ UnchangedLife

\* ... and renamed.  When another worker has renamed it already the rename
\* raises, and _save swallows the exception.
PinsReplace(t) ==
  /\ In(t, "replace")
  /\ IF tmpPins = {} THEN UNCHANGED savedPins
                     ELSE savedPins' \in tmpPins
  /\ tmpPins' = {}
  /\ pinsOpen' = (pinsOpen /\ call[t].op # "stop")
  /\ Return(t, "ok")
  /\ UNCHANGED <<pins, running, blocksOpen, boots>> /\ UnchangedBlocks

\* _save swallows every exception: the file system's, and the one a dictionary
\* raises that another worker changes while it is copied.
PinsNotSaved(t) ==
  /\ "save_pins" \in Faults /\ call[t].at \in {"dump", "tmp", "replace"}
  /\ pinsOpen' = (pinsOpen /\ call[t].op # "stop")
  /\ Return(t, "ok")
  /\ UNCHANGED <<running, blocksOpen, boots>> /\ UnchangedPins /\ UnchangedBlocks

-----------------------------------------------------------------------------
(* IPFSStore.gc: pinned_cids in one job, gc_orphans in the next *)

\* Mutant of Mark: the pins are read from pins.json.
MarkSaved(t) ==
  /\ Start(t, "mark") /\ pinsOpen
  /\ call' = [call EXCEPT ![t].at = "sweep", ![t].snap = savedPins]
  /\ UnchangedPins /\ UnchangedBlocks /\ UnchangedLife

Mark(t) ==
  /\ Start(t, "mark") /\ pinsOpen
  /\ call' = [call EXCEPT ![t].at = "sweep", ![t].snap = pins]
  /\ UnchangedPins /\ UnchangedBlocks /\ UnchangedLife

Sweep(t) ==
  /\ Start(t, "sweep") /\ blocksOpen
  /\ call' = [call EXCEPT ![t].at = "victim", ![t].todo = blocks \ call[t].snap]
  /\ UnchangedPins /\ UnchangedBlocks /\ UnchangedLife

\* Mutant of DeleteProbe: a file that is gone stays on the list.
DeleteProbeAgain(t, b) ==
  /\ In(t, "victim") /\ b \in call[t].todo /\ blocksOpen
  /\ call' = [call EXCEPT ![t].at = IF b \in blocks THEN "unlink" ELSE "victim",
                          ![t].blk = b]
  /\ UnchangedPins /\ UnchangedBlocks /\ UnchangedLife

\* delete: a file that is gone already is skipped.
DeleteProbe(t, b) ==
  /\ In(t, "victim") /\ b \in call[t].todo /\ blocksOpen
  /\ call' = [call EXCEPT ![t].at = IF b \in blocks THEN "unlink" ELSE "victim",
                          ![t].blk = b, ![t].todo = @ \ {b}]
  /\ UnchangedPins /\ UnchangedBlocks /\ UnchangedLife

\* Mutant of DeleteUnlink: the wrong file is unlinked.
DeleteUnlinkOther(t) ==
  /\ In(t, "unlink")
  /\ Goto(t, "uncount") /\ blocks' = blocks \ {call[t].cid}
  /\ UNCHANGED <<stats, savedStats>> /\ UnchangedPins /\ UnchangedLife

\* stat and unlink raise when the file went away after exists() saw it, or
\* when the file system fails.
DeleteUnlink(t) ==
  /\ In(t, "unlink")
  /\ \/ call[t].blk \in blocks /\ Goto(t, "uncount") /\ blocks' = blocks \ {call[t].blk}
     \/ ("unlink" \in Faults \/ call[t].blk \notin blocks) /\ Return(t, "failed") /\ UNCHANGED blocks
  /\ UNCHANGED <<stats, savedStats>> /\ UnchangedPins /\ UnchangedLife

\* Here too the interpreter may switch threads, between the call of max() and
\* each assignment.
DeleteUncount(t) ==
  /\ In(t, "uncount")
  /\ call' = [call EXCEPT ![t].at = "store", ![t].seen.blocks = Minus(stats.blocks, 1)]
  /\ UnchangedBlocks /\ UnchangedPins /\ UnchangedLife

DeleteStore(t) ==
  /\ In(t, "store")
  /\ stats' = [stats EXCEPT !.blocks = call[t].seen.blocks]
  /\ call' = [call EXCEPT ![t].at = "cut",
                          ![t].seen = [blocks |-> 0, bytes |-> Minus(stats.bytes, SizeOf[call[t].blk])]]
  /\ UNCHANGED <<blocks, savedStats>> /\ UnchangedPins /\ UnchangedLife

DeleteCut(t) ==
  /\ In(t, "cut")
  /\ stats' = [stats EXCEPT !.bytes = call[t].seen.bytes]
  /\ call' = [call EXCEPT ![t].at = "resave", ![t].seen = NoStats]
  /\ UNCHANGED <<blocks, savedStats>> /\ UnchangedPins /\ UnchangedLife

DeleteSave(t) ==
  /\ In(t, "resave")
  /\ SaveStats
  /\ Goto(t, "victim")
  /\ UNCHANGED <<blocks, stats>> /\ UnchangedPins /\ UnchangedLife

GCDone(t) ==
  /\ In(t, "victim") /\ call[t].todo = {}
  /\ Goto(t, "finish")
  /\ UnchangedBlocks /\ UnchangedPins /\ UnchangedLife

GCSave(t) ==
  /\ In(t, "finish")
  /\ SaveStats
  /\ Return(t, "ok")
  /\ UNCHANGED <<blocks, stats>> /\ UnchangedPins /\ UnchangedLife

-----------------------------------------------------------------------------
(* BlockStore.get, stop, and the next process *)

GetProbe(t) ==
  /\ Start(t, "probe") /\ blocksOpen
  /\ IF call[t].cid \in blocks THEN Goto(t, "read") ELSE Return(t, "missing")
  /\ UnchangedBlocks /\ UnchangedPins /\ UnchangedLife

\* read_bytes raises FileNotFoundError when the file went away after exists().
GetRead(t) ==
  /\ In(t, "read")
  /\ \/ call[t].cid \in blocks /\ Return(t, "ok")
     \/ ("read" \in Faults \/ call[t].cid \notin blocks) /\ Return(t, "os_error")
  /\ UnchangedBlocks /\ UnchangedPins /\ UnchangedLife

CloseBlocks(t) ==
  /\ Start(t, "close_blocks")
  /\ SaveStats /\ blocksOpen' = FALSE
  /\ Goto(t, "close_pins")
  /\ UNCHANGED <<blocks, stats, running, pinsOpen, boots>> /\ UnchangedPins

ClosePins(t) ==
  /\ Start(t, "close_pins")
  /\ Goto(t, "dump")
  /\ UnchangedBlocks /\ UnchangedPins /\ UnchangedLife

\* The process ends, after stop() or in the middle of anything, and the next
\* one opens the repository.  A crash in _save_stats, which truncates the file
\* before it writes, leaves a document that _load_stats ignores.
Restart ==
  /\ boots < MaxBoots /\ boots' = boots + 1
  /\ \E s \in {savedStats} \cup
              (IF \E t \in Callers : call[t].at \in {"save", "resave", "finish", "close_blocks"}
               THEN {Corrupt} ELSE {}) :
       /\ savedStats' = s
       /\ stats' = IF s \in {Corrupt, Missing} THEN NoStats ELSE s
  /\ pins' = savedPins
  /\ running' = TRUE /\ blocksOpen' = TRUE /\ pinsOpen' = TRUE
  /\ call' = [t \in Callers |-> IdleFrame]
  /\ UNCHANGED <<blocks, tmpPins, savedPins>>

-----------------------------------------------------------------------------
Begin(t) ==
  \/ \E b \in Blocks \ Files : Add(t, b)
  \/ \E m \in Files : AddFile(t, m)
  \/ \E b \in Blocks : Get(t, b) \/ Pin(t, b) \/ Unpin(t, b)
  \/ GC(t) \/ Stop(t)

Work(t) ==
  \/ JobRaises(t)
  \/ CheckCapacity(t) \/ PutProbe(t) \/ PutWrite(t) \/ PutFails(t)
  \/ PutCount(t) \/ PutTotal(t) \/ PutSave(t)
  \/ PinInsert(t) \/ PinRemove(t) \/ PinsDump(t) \/ PinsWriteTmp(t) \/ PinsReplace(t)
  \/ PinsNotSaved(t)
  \/ Mark(t) \/ Sweep(t) \/ (\E b \in Blocks : DeleteProbe(t, b)) \/ DeleteUnlink(t)
  \/ DeleteUncount(t) \/ DeleteStore(t) \/ DeleteCut(t) \/ DeleteSave(t)
  \/ GCDone(t) \/ GCSave(t)
  \/ GetProbe(t) \/ GetRead(t) \/ CloseBlocks(t) \/ ClosePins(t)

Next == (\E t \in Callers : Begin(t) \/ Work(t)) \/ Restart

Spec == Init /\ [][Next]_vars

\* The pool's threads keep running the jobs they are given.
FairSpec == Spec /\ \A t \in Callers : WF_vars(Work(t))

-----------------------------------------------------------------------------
(* Properties *)

\* No call is under way.
Quiescent == \A t \in Callers : call[t].at = "idle"

\* Calls that hold a set of pins taken at their mark phase and are still
\* deleting what that set leaves out.
Collecting(t) == call[t].op = "gc" /\ call[t].at \notin {"idle", "mark"}

\* Stored, pinned, and no collection under way started before it was pinned.
Shielded(b) ==
  /\ b \in blocks \cap pins
  /\ \A t \in Callers : Collecting(t) => b \in call[t].snap

GCPoints == {"mark", "sweep", "victim", "unlink", "uncount", "store", "cut",
             "resave", "finish"}

\* A collection never has in hand, at any point of its deletions, a block of
\* the set of pins it took, however the other calls change the store in the
\* meantime; and only gc reaches the code that deletes.
CollectionInv ==
  \A t \in Callers :
    /\ call[t].at \in GCPoints <=> call[t].op = "gc" /\ call[t].at # "idle"
    /\ call[t].at \in GCPoints \ {"mark", "sweep"} => call[t].todo \cap call[t].snap = {}
    /\ call[t].at = "unlink" => call[t].blk \notin call[t].snap

\* Content that is stored and pinned, and was pinned before every collection
\* under way took its copy of the pins, is not lost, whatever the threads of
\* the pool do next: its file stays, and no later collection can miss the pin
\* while it lasts.  (gc reads the pins in one job and deletes in another; put
\* may find the file and skip the write; a crash may reopen the repository.)
ShieldedStays ==
  [][\A b \in Blocks : Shielded(b) => b \in blocks' /\ (b \in pins' => Shielded(b)')]_vars

\* The store implements the atomic one of ContentStore, every access of a
\* worker being one of its operations or invisible there.
doomed == [t \in Callers |-> IF Collecting(t) THEN Blocks \ call[t].snap ELSE {}]

Content == INSTANCE ContentStore WITH
  Collectors <- Callers, stored <- blocks, pinned <- pins, doomed <- doomed

ImplementsContent == Content!Spec

\* "All mutations are immediately persisted to disk", which holds while one
\* caller at a time changes the pins: when no call is inside PinManager._save,
\* pins.json holds exactly the pins in memory, so a crash between two calls
\* neither loses a pin nor brings one back.
PinsPersisted ==
  (\A t \in Callers : call[t].at \notin {"dump", "tmp", "replace"}) => savedPins = pins

Counted == [blocks |-> Cardinality(blocks), bytes |-> Bytes(blocks)]

\* For a caller that is alone the aggregate counters describe the block files
\* whenever no call is under way, and so does the file they are saved in: a
\* second put of the same bytes is a no-op, a block that a delete removed is
\* subtracted once, and a put that failed half way counts what it stored. A
\* process that starts after a crash has the counters the crash left behind.
StatsExact ==
  boots = 1 /\ Quiescent /\ blocksOpen => stats = Counted /\ savedStats \in {stats, Missing}

\* Every call returns: no interleaving of jobs, closings and errors leaves a
\* coroutine waiting for a job that never ends.
CallsReturn == \A t \in Callers : call[t].at # "idle" ~> call[t].at = "idle"

=============================================================================
