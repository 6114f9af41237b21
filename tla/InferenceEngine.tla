--------------------------- MODULE InferenceEngine ---------------------------
(* agents/inference.py: the one engine that all agents of a node share. The  *)
(* coroutines load(), unload() and complete() run in the event loop; loading *)
(* a model and running it are jobs of an executor with a single thread, in   *)
(* the order they were submitted, and a semaphore bounds the calls that have *)
(* a job there. A job reads the model when it begins, not when it was        *)
(* submitted, and a call that is cancelled leaves a job that has begun.      *)
EXTENDS Integers, SequencesExt, FiniteSets

CONSTANTS
  Calls,        \* the calls of complete()
  Loads,        \* the calls of load(), which also name the Llama object each makes
  FileOf,       \* the model_filename of each load
  Unnamed,      \* the model_name of an engine without a model
  Permits,      \* max(1, inference_threads)
  None

ASSUME EngineAssumption ==
  /\ IsFiniteSet(Calls) /\ Permits \in Nat \ {0}
  /\ Calls \cap Loads = {} /\ None \notin Calls \cup Loads
  /\ Unnamed \notin {FileOf[l] : l \in Loads}

VARIABLES
  llama,        \* _LLAMA_AVAILABLE
  model,        \* _model
  name,         \* _model_name
  loaded,       \* _loaded
  free,         \* permits left in _semaphore
  waiting,      \* the calls that wait for one
  queue,        \* the jobs submitted to _executor that have not begun
  job,          \* the job its thread is at
  call,         \* the frame of each complete()
  load          \* how far each load() is

vars == <<llama, model, name, loaded, free, waiting, queue, job, call, load>>
engine == <<llama, model, name, loaded>>

Results == {"none", "text", "stub", "error", "not loaded"}
Names   == {FileOf[l] : l \in Loads} \cup {Unnamed}

Frame == [at   : {"new", "waiting", "queued", "running", "ran", "returned", "cancelled"},
          used : Loads \cup {None},        \* the model its job read
          out  : Results,
          name : Names]                    \* InferenceResult.model_name

\* the calls within `async with self._semaphore'
Holders == {c \in Calls : call[c].at \in {"queued", "running", "ran"}}

TypeOK ==
  /\ llama \in BOOLEAN /\ loaded \in BOOLEAN
  /\ model \in Loads \cup {None} /\ name \in Names
  /\ free \in 0 .. Permits
  /\ waiting \in Seq(Calls) /\ \A i \in DOMAIN waiting : call[waiting[i]].at = "waiting"
  /\ queue \in Seq(Calls \cup Loads) /\ job \in Calls \cup Loads \cup {None}
  /\ call \in [Calls -> Frame]
  /\ load \in [Loads -> {"new", "queued", "running", "ran", "broken", "done", "failed"}]

Init ==
  /\ llama \in BOOLEAN
  /\ model = None /\ name = Unnamed /\ loaded = FALSE
  /\ free = Permits /\ waiting = <<>> /\ queue = <<>> /\ job = None
  /\ call = [c \in Calls |-> [at |-> "new", used |-> None, out |-> "none", name |-> Unnamed]]
  /\ load = [l \in Loads |-> "new"]
-----------------------------------------------------------------------------
(* load() and unload()                                                       *)

(* Mutant of Load: the name is that of the model that is still to be loaded. *)
LoadNamed(l) ==
  /\ load[l] = "new"
  /\ \/ /\ ~llama
        /\ name' = FileOf[l] /\ loaded' = TRUE /\ load' = [load EXCEPT ![l] = "done"]
        /\ UNCHANGED queue
     \/ /\ llama /\ load' = [load EXCEPT ![l] = "queued"] /\ queue' = Append(queue, l)
        /\ name' = FileOf[l] /\ UNCHANGED loaded
     \/ /\ llama /\ load' = [load EXCEPT ![l] = "failed"]
        /\ UNCHANGED <<name, loaded, queue>>
  /\ UNCHANGED <<llama, model, free, waiting, job, call>>

\* without the library there is nothing to load; without the file it raises
Load(l) ==
  /\ load[l] = "new"
  /\ \/ /\ ~llama
        /\ name' = FileOf[l] /\ loaded' = TRUE /\ load' = [load EXCEPT ![l] = "done"]
        /\ UNCHANGED queue
     \/ /\ llama /\ load' = [load EXCEPT ![l] = "queued"] /\ queue' = Append(queue, l)
        /\ UNCHANGED <<name, loaded>>
     \/ /\ llama /\ load' = [load EXCEPT ![l] = "failed"]
        /\ UNCHANGED <<name, loaded, queue>>
  /\ UNCHANGED <<llama, model, free, waiting, job, call>>

\* the job is done: the model takes the place of the one before, or load() raises
Loaded(l) ==
  /\ \/ /\ load[l] = "ran" /\ load' = [load EXCEPT ![l] = "done"]
        /\ model' = l /\ name' = FileOf[l] /\ loaded' = TRUE
     \/ /\ load[l] = "broken" /\ load' = [load EXCEPT ![l] = "failed"]
        /\ UNCHANGED <<model, name, loaded>>
  /\ UNCHANGED <<llama, free, waiting, queue, job, call>>

Unload ==
  /\ model' = None /\ loaded' = FALSE /\ name' = Unnamed
  /\ UNCHANGED <<llama, free, waiting, queue, job, call, load>>
-----------------------------------------------------------------------------
(* complete()                                                                *)

Returns(c, out) == call' = [call EXCEPT ![c].at = "returned", ![c].out = out, ![c].name =
                              IF out = "not loaded" THEN Unnamed ELSE name]

\* the call has a permit and submits _infer
Submit(c) ==
  /\ free' = free - 1 /\ queue' = Append(queue, c)
  /\ call' = [call EXCEPT ![c].at = "queued"]

\* the calls that need no permit
Refuse(c) ==
  /\ call[c].at = "new"
  /\ \/ ~loaded /\ Returns(c, "not loaded")
     \/ loaded /\ (~llama \/ model = None) /\ Returns(c, "stub")
  /\ UNCHANGED <<engine, free, waiting, queue, job, load>>

Complete(c) ==
  /\ call[c].at = "new" /\ loaded /\ llama /\ model # None
  /\ IF free > 0 /\ waiting = <<>>
     THEN Submit(c) /\ UNCHANGED waiting
     ELSE /\ waiting' = Append(waiting, c) /\ call' = [call EXCEPT ![c].at = "waiting"]
          /\ UNCHANGED <<free, queue>>
  /\ UNCHANGED <<engine, job, load>>

\* the first that waits gets the permit
Acquire ==
  /\ waiting # <<>> /\ free > 0
  /\ waiting' = Tail(waiting) /\ Submit(Head(waiting))
  /\ UNCHANGED <<engine, job, load>>

(* Mutant of Return: only a call that succeeded gives its permit back.       *)
ReturnKeeps(c) ==
  /\ call[c].at = "ran"
  /\ Returns(c, call[c].out)
  /\ free' = IF call[c].out = "error" THEN free ELSE free + 1
  /\ UNCHANGED <<engine, waiting, queue, job, load>>

\* the job is done: the result takes the name the engine has now
Return(c) ==
  /\ call[c].at = "ran"
  /\ Returns(c, call[c].out) /\ free' = free + 1
  /\ UNCHANGED <<engine, waiting, queue, job, load>>

(* Mutant of Cancel: the permit of a job that has begun is not given back.   *)
CancelKeeps(c) ==
  /\ call[c].at \in {"waiting", "queued", "running", "ran"}
  /\ call' = [call EXCEPT ![c].at = "cancelled"]
  /\ waiting' = RemoveFirst(waiting, c) /\ queue' = RemoveFirst(queue, c)
  /\ free' = IF call[c].at = "queued" THEN free + 1 ELSE free
  /\ UNCHANGED <<engine, job, load>>

\* wait_for of the bus gives up the handler that awaits complete(): a job that
\* has not begun is withdrawn, one that has goes on for nobody
Cancel(c) ==
  /\ call[c].at \in {"waiting", "queued", "running", "ran"}
  /\ call' = [call EXCEPT ![c].at = "cancelled"]
  /\ waiting' = RemoveFirst(waiting, c) /\ queue' = RemoveFirst(queue, c)
  /\ free' = IF c \in Holders THEN free + 1 ELSE free
  /\ UNCHANGED <<engine, job, load>>
-----------------------------------------------------------------------------
(* The thread of the executor                                                *)

\* _infer reads self._model, _load makes a model
JobBegins ==
  /\ job = None /\ queue # <<>>
  /\ job' = Head(queue) /\ queue' = Tail(queue)
  /\ IF job' \in Calls
     THEN call' = [call EXCEPT ![job'].at = "running", ![job'].used = model] /\ UNCHANGED load
     ELSE load' = [load EXCEPT ![job'] = "running"] /\ UNCHANGED call
  /\ UNCHANGED <<engine, free, waiting>>

\* there is no model by now, or it fails
JobFails ==
  /\ job # None /\ job' = None
  /\ IF job \in Loads
     THEN load' = [load EXCEPT ![job] = "broken"] /\ UNCHANGED call
     ELSE /\ call' = IF call[job].at = "running"
                     THEN [call EXCEPT ![job].at = "ran", ![job].out = "error"] ELSE call
          /\ UNCHANGED load
  /\ UNCHANGED <<engine, free, waiting, queue>>

JobEnds ==
  /\ job # None /\ job' = None
  /\ IF job \in Loads
     THEN load' = [load EXCEPT ![job] = "ran"] /\ UNCHANGED call
     ELSE /\ call[job].used # None
          /\ call' = IF call[job].at = "running"
                     THEN [call EXCEPT ![job].at = "ran", ![job].out = "text"] ELSE call
          /\ UNCHANGED load
  /\ UNCHANGED <<engine, free, waiting, queue>>

Next ==
  \/ \E l \in Loads : Load(l) \/ Loaded(l)
  \/ Unload
  \/ \E c \in Calls : Refuse(c) \/ Complete(c) \/ Return(c) \/ Cancel(c)
  \/ Acquire \/ JobBegins \/ JobFails \/ JobEnds

Spec == Init /\ [][Next]_vars

\* The loop runs what is ready, and a job ends; nobody has to load or cancel.
FairSpec ==
  /\ Spec
  /\ WF_vars(Acquire) /\ WF_vars(JobBegins) /\ WF_vars(JobFails \/ JobEnds)
  /\ \A c \in Calls : WF_vars(Return(c))
  /\ \A l \in Loads : WF_vars(Loaded(l))
-----------------------------------------------------------------------------
(* However calls fail or are cancelled, and models come and go, each permit  *)
(* is free or held by a call that is under way: none is lost or made.        *)
PermitsExact == free + Cardinality(Holders) = Permits

(* "basename of the model file used": a result names the model that made it, *)
(* as long as no other has been loaded, or this one unloaded, meanwhile; a   *)
(* load under way must not show before its model is there.                   *)
NamesItsModel ==
  \A c \in Calls : call[c].at = "returned" /\ call[c].out = "text" /\ call[c].used = model
    => call[c].name = FileOf[model]

(* Who waits for the engine is answered, behind calls that fail and loads    *)
(* that share its thread, and a load under way ends.                         *)
EngineAnswers ==
  /\ \A c \in Calls : call[c].at = "waiting" ~> call[c].at \in {"returned", "cancelled"}
  /\ \A l \in Loads : load[l] = "queued" ~> load[l] \in {"done", "failed"}
=============================================================================
