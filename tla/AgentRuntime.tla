----------------------------- MODULE AgentRuntime -----------------------------
(***************************************************************************)
(* The agents of one Neuralis node: AgentLoader (loader.py), AgentBus      *)
(* (bus.py) and AgentRuntime (runtime.py).                                 *)
(*                                                                         *)
(* Coroutines of one event loop: a scan of agents_dir by start() and by    *)
(* every call of reload_agents(), the callers of dispatch() and request(), *)
(* and stop().  They are suspended only where an agent's start(), stop()   *)
(* or handle() is awaited; `loop' holds the coroutine that is between two  *)
(* such points, so that nothing but the files on disk changes beside it.   *)
(*                                                                         *)
(* Left out: the inference engine, the contents of messages and answers,   *)
(* the counters and the dead letters of the bus.                           *)
(***************************************************************************)
EXTENDS Integers, SequencesExt

CONSTANTS
  Files,        \* files of agents_dir, those that start with "_" apart
  Names,        \* the NAMEs of agent classes
  Topics,
  Broadcast, Wildcard,
  TopicsOf,     \* {NAME} and CAPABILITIES of an agent
  Classes,      \* Classes[f][v]: the NAMEs defined in version v of file f
  MaxTime,      \* bound on the changes made to the directory
  Reloads,      \* the calls of reload_agents()
  Calls,        \* the calls of dispatch() and request()
  Boot,         \* the scan made by start()
  None

ASSUME RuntimeAssumption ==
  /\ MaxTime \in Nat \ {0}
  /\ {Broadcast, Wildcard} \subseteq Topics
  /\ TopicsOf \in [Names -> SUBSET Topics] /\ \A n \in Names : n \in TopicsOf[n]
  /\ Classes \in [Files -> [1..MaxTime -> SUBSET Names]]
  /\ Boot \notin Reloads \cup Calls
  /\ Reloads \cap Calls = {}
  /\ None \notin Reloads \cup Calls \cup {Boot} \cup Files

Scans == Reloads \cup {Boot}

\* Agent objects: a scan instantiates a class of a file at most once.
Agents    == Scans \X Files \X Names
FileOf(i) == i[2]
NameOf(i) == i[3]

ASSUME NoneAssumption == None \notin Agents

VARIABLES
  disk,         \* the version of each file, its mtime; 0 when there is no file
  clock,        \* the last mtime given
  state,        \* BaseAgent._state
  agents,       \* AgentLoader._agents, in the order of the dictionary
  sources,      \* _sources
  mtimes,       \* _mtimes, 0 for no entry
  subs,         \* AgentBus._handlers: the agent of each subscription
  running,      \* AgentRuntime._running
  stopping,     \* the agents stop_all has still to stop
  scan,         \* the frame of each scan
  call,         \* the frame of each call
  loop          \* the coroutine between two awaits, or None

vars == <<disk, clock, state, agents, sources, mtimes, subs, running, stopping,
          scan, call, loop>>

Loader == <<agents, sources, mtimes>>

AgentStates == {"idle", "running", "busy", "stopped", "error"}
IsRunning(i) == state[i] \in {"running", "busy"}

ScanFrame == [at      : {"new", "scan", "unload", "stop", "start", "starting",
                         "wire", "done", "raised"},
              files   : SUBSET Files,            \* current_files
              todo    : SUBSET Files,
              file    : Files \cup {None},
              seen    : 0..MaxTime,              \* mtime
              old     : SUBSET Names,            \* old_names left to deactivate
              batch   : SUBSET Names,            \* new_agents left to activate
              who     : Agents \cup {None},      \* the agent being awaited
              changed : BOOLEAN,
              added   : Seq(Names),
              updated : Seq(Names),
              wire    : Seq(Names)]              \* names left to wire

CallFrame == [at : {"new", "deliver", "handling", "done"},
              timed : BOOLEAN,                   \* request(), not dispatch()
              queue : Seq(Agents)]               \* handlers left to call

TypeOK ==
  /\ disk \in [Files -> 0..MaxTime] /\ clock \in 1..MaxTime
  /\ state \in [Agents -> AgentStates]
  /\ agents \in Seq(Agents)
  /\ sources \in [Names -> Files \cup {None}]
  /\ mtimes \in [Files -> 0..MaxTime]
  /\ subs \in [Topics -> Seq(Agents)]
  /\ running \in BOOLEAN
  /\ stopping \in Seq(Agents)
  /\ scan \in [Scans -> ScanFrame]
  /\ \A s \in Scans : scan[s].at \in {"stop", "starting"} => scan[s].who # None
  /\ \A s \in Scans : scan[s].at \in {"unload", "stop", "start", "starting"} =>
       scan[s].file # None
  /\ call \in [Calls -> CallFrame]
  /\ \A c \in Calls : call[c].at = "handling" => call[c].queue # <<>>
  /\ loop \in Scans \cup Calls \cup {None}

NoScan == [at |-> "new", files |-> {}, todo |-> {}, file |-> None, seen |-> 0,
           old |-> {}, batch |-> {}, who |-> None, changed |-> FALSE,
           added |-> <<>>, updated |-> <<>>, wire |-> <<>>]

Init ==
  /\ disk \in [Files -> {0, 1}] /\ clock = 1
  /\ state = [i \in Agents |-> "idle"]
  /\ agents = <<>>
  /\ sources = [n \in Names |-> None]
  /\ mtimes = [f \in Files |-> 0]
  /\ subs = [t \in Topics |-> <<>>]
  /\ running = FALSE /\ stopping = <<>>
  /\ scan = [s \in Scans |-> NoScan]
  /\ call = [c \in Calls |-> [at |-> "new", timed |-> FALSE, queue |-> <<>>]]
  /\ loop = None

-----------------------------------------------------------------------------
(* The directory, which anybody may change at any moment *)

WriteFile(f) ==
  /\ clock < MaxTime
  /\ clock' = clock + 1
  /\ disk' = [disk EXCEPT ![f] = clock + 1]
  /\ UNCHANGED <<state, Loader, subs, running, stopping, scan, call, loop>>

DeleteFile(f) ==
  /\ disk[f] # 0
  /\ disk' = [disk EXCEPT ![f] = 0]
  /\ UNCHANGED <<clock, state, Loader, subs, running, stopping, scan, call, loop>>

Present == {f \in Files : disk[f] # 0}

-----------------------------------------------------------------------------
(* Tables *)

Loaded(n) == \E k \in DOMAIN agents : NameOf(agents[k]) = n
IndexOf(n) == CHOOSE k \in DOMAIN agents : NameOf(agents[k]) = n

\* AgentLoader.get
Get(n) == IF Loaded(n) THEN agents[IndexOf(n)] ELSE None

\* _agents[agent.NAME] = agent: an entry that is replaced keeps its place
Put(i) == IF Loaded(NameOf(i)) THEN [agents EXCEPT ![IndexOf(NameOf(i))] = i]
          ELSE Append(agents, i)

\* _agents.pop(name, None)
Pop(n) == IF Loaded(n) THEN RemoveAt(agents, IndexOf(n)) ELSE agents

\* Mutant of Rested: the agent is RUNNING again whatever happened meanwhile.
RestedBlind(i) == [state EXCEPT ![i] = "running"]

\* The end of a handler: an agent stopped meanwhile stays so.
Rested(i) == IF state[i] = "busy" THEN [state EXCEPT ![i] = "running"] ELSE state

-----------------------------------------------------------------------------
(* Scans of agents_dir *)

At(s, point) == scan[s].at = point
Step(s, frame) == scan' = [scan EXCEPT ![s] = frame]

StartRuntime ==
  /\ loop = None /\ At(Boot, "new")
  /\ Step(Boot, [NoScan EXCEPT !.at = "scan", !.files = Present, !.todo = Present])
  /\ loop' = Boot
  /\ UNCHANGED <<disk, clock, state, Loader, subs, running, stopping, call>>

\* The loop over the removed files takes the names of _sources for paths.  No
\* name is a path of the directory and no path a name of _agents: every name is
\* forgotten, no agent is deactivated, and no mtime is dropped.  Without a
\* directory there is nothing to do.
Reload(r) ==
  /\ loop = None /\ At(r, "new") /\ At(Boot, "done")
  /\ Step(r, [NoScan EXCEPT !.at = "scan", !.files = Present, !.todo = Present])
  /\ \/ sources' = [n \in Names |-> None]
     \/ Present = {} /\ UNCHANGED sources
  /\ loop' = r
  /\ UNCHANGED <<disk, clock, state, agents, mtimes, subs, running, stopping, call>>

\* The stat of a file deleted meanwhile raises out of the scan.
Visit(s, f) ==
  /\ loop = s /\ At(s, "scan") /\ f \in scan[s].todo
  /\ LET left    == [scan[s] EXCEPT !.todo = @ \ {f}]
         changed == s # Boot /\ mtimes[f] # 0
     IN CASE disk[f] = 0 ->
               Step(s, [NoScan EXCEPT !.at = "raised"]) /\ loop' = None
          [] disk[f] # 0 /\ mtimes[f] = disk[f] ->
               Step(s, left) /\ UNCHANGED loop
          [] OTHER ->
               /\ Step(s, [left EXCEPT !.at = "unload", !.file = f, !.seen = disk[f],
                             !.changed = changed,
                             !.old = IF changed THEN {n \in Names : sources[n] = f} ELSE {}])
               /\ UNCHANGED loop
  /\ UNCHANGED <<disk, clock, state, Loader, subs, running, stopping, call>>

\* _deactivate, up to the await of agent.stop()
Unload(s, n) ==
  /\ loop = s /\ At(s, "unload") /\ n \in scan[s].old
  /\ LET left == [scan[s] EXCEPT !.old = @ \ {n}]
     IN IF Loaded(n) THEN Step(s, [left EXCEPT !.at = "stop", !.who = Get(n)]) /\ loop' = None
        ELSE Step(s, left) /\ UNCHANGED loop
  /\ agents' = Pop(n)
  /\ UNCHANGED <<disk, clock, state, sources, mtimes, subs, running, stopping, call>>

\* BaseAgent.stop sets the state, unless the agent's own stop() raises first.
Unloaded(s) ==
  /\ loop = None /\ At(s, "stop")
  /\ \/ state' = [state EXCEPT ![scan[s].who] = "stopped"]
     \/ UNCHANGED state
  /\ Step(s, [scan[s] EXCEPT !.at = "unload", !.who = None])
  /\ loop' = s
  /\ UNCHANGED <<disk, clock, Loader, subs, running, stopping, call>>

\* _load_file: the names that are loaded now are skipped.
Load(s) ==
  /\ loop = s /\ At(s, "unload") /\ scan[s].old = {}
  /\ disk[scan[s].file] # 0
  /\ LET found == Classes[scan[s].file][disk[scan[s].file]]
     IN /\ found # {}
        /\ Step(s, [scan[s] EXCEPT !.at = "start", !.batch = {n \in found : ~Loaded(n)}])
  /\ UNCHANGED <<disk, clock, state, Loader, subs, running, stopping, call, loop>>

\* The file is gone, cannot be imported, has no agent, or one raises when it is
\* instantiated: its mtime is not recorded.
LoadFails(s) ==
  /\ loop = s /\ At(s, "unload") /\ scan[s].old = {}
  /\ Step(s, [scan[s] EXCEPT !.at = "scan", !.file = None])
  /\ UNCHANGED <<disk, clock, state, Loader, subs, running, stopping, call, loop>>

\* Mutant of Start: the agent is registered before its start() is awaited.
StartRegistered(s, n) ==
  /\ loop = s /\ At(s, "start") /\ n \in scan[s].batch
  /\ LET i == <<s, scan[s].file, n>>
     IN /\ state' = [state EXCEPT ![i] = "running"]
        /\ agents' = Put(i)
        /\ Step(s, [scan[s] EXCEPT !.at = "starting", !.who = i, !.batch = @ \ {n}])
  /\ loop' = None
  /\ UNCHANGED <<disk, clock, sources, mtimes, subs, running, stopping, call>>

\* _activate: BaseAgent.start sets the state first, then the agent's own work
\* is awaited.
Start(s, n) ==
  /\ loop = s /\ At(s, "start") /\ n \in scan[s].batch
  /\ LET i == <<s, scan[s].file, n>>
     IN /\ state' = [state EXCEPT ![i] = "running"]
        /\ Step(s, [scan[s] EXCEPT !.at = "starting", !.who = i, !.batch = @ \ {n}])
  /\ loop' = None
  /\ UNCHANGED <<disk, clock, Loader, subs, running, stopping, call>>

Started(s) ==
  /\ loop = None /\ At(s, "starting")
  /\ LET n == NameOf(scan[s].who)
     IN /\ agents' = Put(scan[s].who)
        /\ sources' = [sources EXCEPT ![n] = scan[s].file]
        /\ Step(s, [scan[s] EXCEPT !.at = "start", !.who = None,
                      !.added   = IF scan[s].changed THEN @ ELSE Append(@, n),
                      !.updated = IF scan[s].changed THEN Append(@, n) ELSE @])
  /\ loop' = s
  /\ UNCHANGED <<disk, clock, state, mtimes, subs, running, stopping, call>>

\* The rest of the file's agents are dropped with it.
StartFails(s) ==
  /\ loop = None /\ At(s, "starting")
  /\ state' = [state EXCEPT ![scan[s].who] = "error"]
  /\ Step(s, [scan[s] EXCEPT !.at = "scan", !.file = None, !.who = None, !.batch = {}])
  /\ loop' = s
  /\ UNCHANGED <<disk, clock, Loader, subs, running, stopping, call>>

Record(s) ==
  /\ loop = s /\ At(s, "start") /\ scan[s].batch = {}
  /\ mtimes' = [mtimes EXCEPT ![scan[s].file] = scan[s].seen]
  /\ Step(s, [scan[s] EXCEPT !.at = "scan", !.file = None])
  /\ UNCHANGED <<disk, clock, state, agents, sources, subs, running, stopping, call, loop>>

\* Mutant of ToWire: reload_agents forgets the agents of changed files.
ToWireAdded(s) == IF s = Boot THEN [k \in DOMAIN agents |-> NameOf(agents[k])]
                  ELSE scan[s].added

\* _wire_agents after discover(), result["added"] + result["updated"] after reload()
ToWire(s) == IF s = Boot THEN [k \in DOMAIN agents |-> NameOf(agents[k])]
             ELSE scan[s].added \o scan[s].updated

EndScan(s) ==
  /\ loop = s /\ At(s, "scan") /\ scan[s].todo = {}
  /\ Step(s, [NoScan EXCEPT !.at = "wire", !.files = scan[s].files, !.wire = ToWire(s)])
  /\ UNCHANGED <<disk, clock, state, Loader, subs, running, stopping, call, loop>>

\* _wire_agent for the agent now loaded under the name, if there is one
Subscribed(n) ==
  [t \in Topics |-> IF Loaded(n) /\ t \in TopicsOf[n] THEN Append(subs[t], Get(n)) ELSE subs[t]]

Wire(s) ==
  /\ loop = s /\ At(s, "wire") /\ scan[s].wire # <<>>
  /\ subs' = Subscribed(Head(scan[s].wire))
  /\ Step(s, [scan[s] EXCEPT !.wire = Tail(@)])
  /\ UNCHANGED <<disk, clock, state, Loader, running, stopping, call, loop>>

EndWire(s) ==
  /\ loop = s /\ At(s, "wire") /\ scan[s].wire = <<>>
  /\ running' = (running \/ s = Boot)
  /\ Step(s, [NoScan EXCEPT !.at = "done"])
  /\ loop' = None
  /\ UNCHANGED <<disk, clock, state, Loader, subs, stopping, call>>

-----------------------------------------------------------------------------
(* Messages *)

Handlers(t) ==
  subs[t] \o (IF t # Broadcast THEN subs[Broadcast] ELSE <<>>)
          \o (IF t # Wildcard THEN subs[Wildcard] ELSE <<>>)

CallStep(c, frame) == call' = [call EXCEPT ![c] = frame]

\* runtime.dispatch and bus.publish.  An expired message, and one that nobody
\* is subscribed to, ends at once.
Dispatch(c, t) ==
  /\ loop = None /\ running /\ call[c].at = "new"
  /\ \/ CallStep(c, [at |-> "done", timed |-> FALSE, queue |-> <<>>]) /\ UNCHANGED loop
     \/ CallStep(c, [at |-> "deliver", timed |-> FALSE, queue |-> Handlers(t)]) /\ loop' = c
  /\ UNCHANGED <<disk, clock, state, Loader, subs, running, stopping, scan>>

\* runtime.request and bus.request: the first handler of the target, or of
\* "broadcast".  wait_for may run it in a task of its own, that starts later.
Request(c, t) ==
  /\ loop = None /\ running /\ call[c].at = "new"
  /\ LET hs == IF subs[t] # <<>> THEN subs[t] ELSE subs[Broadcast]
     IN IF hs # <<>>
        THEN CallStep(c, [at |-> "deliver", timed |-> TRUE, queue |-> <<Head(hs)>>])
        ELSE CallStep(c, [at |-> "done", timed |-> TRUE, queue |-> <<>>])
  /\ UNCHANGED <<disk, clock, state, Loader, subs, running, stopping, scan, loop>>

\* The next handler: it skips an agent that is not running by now.
Deliver(c) ==
  /\ loop \in {None, c} /\ call[c].at = "deliver" /\ call[c].queue # <<>>
  /\ LET i == Head(call[c].queue)
     IN IF IsRunning(i)
        THEN /\ state' = [state EXCEPT ![i] = "busy"]
             /\ CallStep(c, [call[c] EXCEPT !.at = "handling"])
             /\ loop' = None
        ELSE /\ CallStep(c, [call[c] EXCEPT !.queue = Tail(@)])
             /\ loop' = c
             /\ UNCHANGED state
  /\ UNCHANGED <<disk, clock, Loader, subs, running, stopping, scan>>

\* handle() returned or raised.
Handled(c) ==
  /\ loop = None /\ call[c].at = "handling"
  /\ state' = Rested(Head(call[c].queue))
  /\ CallStep(c, [call[c] EXCEPT !.at = "deliver", !.queue = Tail(@)])
  /\ loop' = c
  /\ UNCHANGED <<disk, clock, Loader, subs, running, stopping, scan>>

\* Mutant of TimesOut: the handler is abandoned, not cancelled.
TimesOutAbandoned(c) ==
  /\ loop = None /\ call[c].at = "handling" /\ call[c].timed
  /\ CallStep(c, [call[c] EXCEPT !.at = "done", !.queue = <<>>])
  /\ UNCHANGED <<disk, clock, state, Loader, subs, running, stopping, scan, loop>>

\* wait_for cancels the handler, whose finally clause runs.
TimesOut(c) ==
  /\ loop = None /\ call[c].at = "handling" /\ call[c].timed
  /\ state' = Rested(Head(call[c].queue))
  /\ CallStep(c, [call[c] EXCEPT !.at = "done", !.queue = <<>>])
  /\ UNCHANGED <<disk, clock, Loader, subs, running, stopping, scan, loop>>

Return(c) ==
  /\ loop \in {None, c} /\ call[c].at = "deliver" /\ call[c].queue = <<>>
  /\ CallStep(c, [call[c] EXCEPT !.at = "done"])
  /\ loop' = None
  /\ UNCHANGED <<disk, clock, state, Loader, subs, running, stopping, scan>>

-----------------------------------------------------------------------------
(* runtime.stop *)

NoSubscriptions == [t \in Topics |-> <<>>]

StopBegin ==
  /\ loop = None /\ running
  /\ running' = FALSE
  /\ stopping' = Reverse(agents)
  /\ subs' = IF agents = <<>> THEN NoSubscriptions ELSE subs
  /\ UNCHANGED <<disk, clock, state, Loader, scan, call, loop>>

\* One turn of stop_all.  The last one clears the table, and with it whatever a
\* reload has added since, and bus.reset the subscriptions.
StopOne ==
  /\ loop = None /\ stopping # <<>>
  /\ \/ state' = [state EXCEPT ![Head(stopping)] = "stopped"]
     \/ UNCHANGED state
  /\ stopping' = Tail(stopping)
  /\ IF Tail(stopping) = <<>> THEN agents' = <<>> /\ subs' = NoSubscriptions
     ELSE UNCHANGED <<agents, subs>>
  /\ UNCHANGED <<disk, clock, sources, mtimes, running, scan, call, loop>>

-----------------------------------------------------------------------------
(* Specification *)

Directory == \E f \in Files : WriteFile(f) \/ DeleteFile(f)

\* A scan between two awaits.
Scanning(s) ==
  \/ \E f \in Files : Visit(s, f)
  \/ \E n \in Names : Unload(s, n) \/ Start(s, n)
  \/ Load(s) \/ LoadFails(s) \/ Record(s) \/ EndScan(s) \/ Wire(s) \/ EndWire(s)

\* What an agent's start() or stop() comes to.
Awaited(s) == Unloaded(s) \/ Started(s) \/ StartFails(s)

Calling(c) == \E t \in Topics : Dispatch(c, t) \/ Request(c, t)
Delivering(c) == Deliver(c) \/ Return(c)

Next ==
  \/ Directory
  \/ StartRuntime
  \/ \E r \in Reloads : Reload(r)
  \/ \E s \in Scans : Scanning(s) \/ Awaited(s)
  \/ \E c \in Calls : Calling(c) \/ Delivering(c) \/ Handled(c) \/ TimesOut(c)
  \/ StopBegin \/ StopOne

Spec == Init /\ [][Next]_vars

-----------------------------------------------------------------------------
(* Properties *)

Handles(c, i) == call[c].at = "handling" /\ Head(call[c].queue) = i

\* No agent is left BUSY by a message that ended, failed, timed out, or
\* overlapped another or the stop of the agent (runtime.py, _handler).
BusyIsWorked == \A i \in Agents : state[i] = "busy" => \E c \in Calls : Handles(c, i)

\* An agent that was stopped never runs again, and one whose start failed is
\* never used, whatever messages were being handled at the time.
StoppedIsFinal ==
  [][\A i \in Agents : state[i] \in {"stopped", "error"} =>
                       state'[i] = state[i]]_vars

HasStarted(i) ==
  /\ state[i] \notin {"idle", "error"}
  /\ \A s \in Scans : At(s, "starting") => scan[s].who # i

\* Every agent that is subscribed, or that a message will be handed to, has
\* ended its start() without an error, even when reloads overlap.
WiredWasStarted ==
  /\ \A t \in Topics : \A k \in DOMAIN subs[t] : HasStarted(subs[t][k])
  /\ \A c \in Calls : \A k \in DOMAIN call[c].queue : HasStarted(call[c].queue[k])

Quiet == \A s \in Scans : scan[s].at \in {"new", "done"}

\* Once no scan is under way and none has raised, every agent that is loaded is
\* among the subscribers of its name, so that what is published to the name is
\* handed to it: reloads that overlap each other, replace an agent or meet a
\* stop() leave none without a subscription. It says nothing of request(), which
\* takes the first subscriber: one that was replaced stays in front.
LoadedIsWired ==
  Quiet => \A k \in DOMAIN agents : agents[k] \in Range(subs[NameOf(agents[k])])

=============================================================================
