------------------------------ MODULE NodeServer ------------------------------
(* The process of run_server.py: Node.boot(), the subsystems that main()     *)
(* starts one after another, the API it serves then, and the two ways of     *)
(* node.py to stop them again: shutdown_async(), which POST /shutdown asks   *)
(* for, and shutdown(), which the handler of SIGINT and SIGTERM calls within *)
(* the running loop.                                                         *)
EXTENDS Integers, Sequences, FiniteSets

CONSTANT MaxPosts \* bound on the requests to shut down

ASSUME ServerAssumption == MaxPosts \in Nat

\* the subsystems in the order main() starts them
Mesh == 1
Store == 2
Agents == 3
Protocol == 4
Subsystems == 1 .. 4

VARIABLES state,     \* Node.state
          main,      \* what main() does
          sub,       \* what each subsystem does
          found,     \* callbacks there were when the shutdown began, the first ones
          at,        \* the callback that shutdown_async() awaits, 0 for none
          posts,     \* tasks of shutdown_async() that have not begun
          tasks,     \* tasks of shutdown() that have not begun
          signalled, \* uvicorn has caught a signal
          cancelled  \* asyncio.run() has cancelled what was left
vars == <<state, main, sub, found, at, posts, tasks, signalled, cancelled>>

TypeOK ==
  /\ state \in {"BOOTING", "RUNNING", "SHUTTING_DOWN", "STOPPED"}
  /\ main \in {"boots", "starts", "serves", "returned", "exited"}
  /\ sub \in [Subsystems -> {"new", "starting", "up", "stopping", "down", "failed", "aborted"}]
  /\ found \in 0 .. 4 /\ at \in 0 .. found
  /\ posts \in 0 .. MaxPosts
  /\ tasks \in Seq(Subsystems)
  /\ at > 0 => state = "SHUTTING_DOWN" /\ sub[at] = "stopping"
  /\ \A k \in DOMAIN tasks : sub[tasks[k]] = "up"
  /\ signalled \in BOOLEAN /\ cancelled \in BOOLEAN

Init ==
  /\ state = "BOOTING" /\ main = "boots"
  /\ sub = [i \in Subsystems |-> "new"]
  /\ found = 0 /\ at = 0 /\ posts = 0 /\ tasks = <<>>
  /\ signalled = FALSE /\ cancelled = FALSE

\* the length of _shutdown_callbacks: those of the first subsystems
Registered == {i \in Subsystems : sub[i] \notin {"new", "starting"}}
Callbacks  == Cardinality(Registered)
-----------------------------------------------------------------------------
(* main()                                                                    *)

\* Node.boot(): the node runs, and the handlers of signals are installed last
Boot ==
  /\ main = "boots" /\ main' = "starts" /\ state' = "RUNNING"
  /\ UNCHANGED <<sub, found, at, posts, tasks, signalled, cancelled>>

\* the identity or the boot record cannot be read or written
BootFails ==
  /\ main = "boots" /\ main' = "returned"
  /\ UNCHANGED <<state, sub, found, at, posts, tasks, signalled, cancelled>>

\* main() awaits start() of the next subsystem
Start(i) ==
  /\ main = "starts" /\ i = Callbacks + 1 /\ sub[i] = "new"
  /\ sub' = [sub EXCEPT ![i] = "starting"]
  /\ UNCHANGED <<state, main, found, at, posts, tasks, signalled, cancelled>>

\* the port cannot be bound, the repository not be opened, a plugin vanishes
\* before its stat(): main() raises
StartFails(i) ==
  /\ main = "starts" /\ sub[i] = "starting"
  /\ main' = "returned"
  /\ UNCHANGED <<state, sub, found, at, posts, tasks, signalled, cancelled>>

\* start() registers the subsystem and its stop() last; serve() follows the last
Started(i) ==
  /\ main = "starts" /\ sub[i] = "starting"
  /\ sub' = [sub EXCEPT ![i] = "up"]
  /\ main' = IF i = Protocol THEN "serves" ELSE main
  /\ UNCHANGED <<state, found, at, posts, tasks, signalled, cancelled>>

(* Mutant of Shutdown: in the order of registration.                         *)
ShutdownForward ==
  IF state # "RUNNING" THEN UNCHANGED <<state, found, tasks>>
  ELSE /\ state' = "STOPPED" /\ found' = Callbacks
       /\ tasks' = [k \in 1 .. Callbacks |-> k]

(* shutdown(): in a running loop each stop() becomes a task; the last        *)
(* subsystem is the first to begin. STOPPED does not wait for them.          *)
Shutdown ==
  IF state # "RUNNING" THEN UNCHANGED <<state, found, tasks>>
  ELSE /\ state' = "STOPPED" /\ found' = Callbacks
       /\ tasks' = [k \in 1 .. Callbacks |-> Callbacks + 1 - k]

\* SIGTERM ends a process that boots; SIGINT cancels main(), if need be when
\* boot() has returned
Interrupt ==
  /\ main = "boots"
  /\ \/ main' = "exited" /\ UNCHANGED state
     \/ main' = "returned" /\ state' \in {"BOOTING", "RUNNING"}
  /\ UNCHANGED <<sub, found, at, posts, tasks, signalled, cancelled>>

\* before serve() the handler of the node runs; uvicorn's remembers the signal
Signal ==
  \/ main = "starts" /\ Shutdown /\ UNCHANGED <<main, sub, at, posts, signalled, cancelled>>
  \/ main = "serves" /\ signalled' = TRUE
     /\ UNCHANGED <<state, main, sub, found, at, posts, tasks, cancelled>>

\* shutdown_node(), until uvicorn stops accepting
Post ==
  /\ main = "serves" /\ ~signalled /\ posts < MaxPosts
  /\ posts' = posts + 1
  /\ UNCHANGED <<state, main, sub, found, at, tasks, signalled, cancelled>>

\* requests are over: uvicorn raises the signal again, and main() returns
ServeReturns ==
  /\ main = "serves" /\ signalled
  /\ main' = "returned" /\ Shutdown
  /\ UNCHANGED <<sub, at, posts, signalled, cancelled>>
-----------------------------------------------------------------------------
(* Tasks                                                                     *)

\* shutdown_async() goes on with the callback k, where s is what the subsystems do
Goes(k, s) ==
  /\ at' = k
  /\ IF k = 0 THEN state' = "STOPPED" /\ sub' = s
     ELSE state' = "SHUTTING_DOWN" /\ sub' = [s EXCEPT ![k] = "stopping"]

\* a task of shutdown_async() begins
Begin ==
  /\ posts > 0 /\ posts' = posts - 1
  /\ IF state = "RUNNING" THEN found' = Callbacks /\ Goes(Callbacks, sub)
     ELSE UNCHANGED <<state, sub, found, at>>
  /\ UNCHANGED <<main, tasks, signalled, cancelled>>

\* a task of shutdown() begins
BeginTask ==
  /\ tasks # <<>> /\ tasks' = Tail(tasks)
  /\ sub' = [sub EXCEPT ![Head(tasks)] = "stopping"]
  /\ UNCHANGED <<state, main, found, at, posts, signalled, cancelled>>

(* Mutant of StopEnds: an exception ends the shutdown, which says STOPPED.   *)
StopEndsFinally(i) ==
  /\ main # "exited" /\ sub[i] = "stopping"
  /\ \E r \in {"down", "failed"} :
       LET s == [sub EXCEPT ![i] = r] IN
       IF at = i THEN Goes(IF r = "failed" THEN 0 ELSE i - 1, s) ELSE sub' = s /\ UNCHANGED <<state, at>>
  /\ UNCHANGED <<main, found, posts, tasks, signalled, cancelled>>

(* Mutant of StopEnds: an exception ends the task of the shutdown.           *)
StopEndsRaises(i) ==
  /\ main # "exited" /\ sub[i] = "stopping"
  /\ \E r \in {"down", "failed"} :
       LET s == [sub EXCEPT ![i] = r] IN
       IF at = i /\ r = "down" THEN Goes(i - 1, s)
       ELSE sub' = s /\ at' = (IF at = i THEN 0 ELSE at) /\ UNCHANGED state
  /\ UNCHANGED <<main, found, posts, tasks, signalled, cancelled>>

\* stop() returns, or raises what is logged; shutdown_async() takes the next one
StopEnds(i) ==
  /\ main # "exited" /\ sub[i] = "stopping"
  /\ \E r \in {"down", "failed"} :
       LET s == [sub EXCEPT ![i] = r] IN
       IF at = i THEN Goes(i - 1, s) ELSE sub' = s /\ UNCHANGED <<state, at>>
  /\ UNCHANGED <<main, found, posts, tasks, signalled, cancelled>>

(* asyncio.run() cancels what is left when main() has returned and each task *)
(* has had its first step. stop() of the router catches that and goes on,    *)
(* that of the mesh may; the others end, and with them shutdown_async().     *)
Cancel ==
  /\ main = "returned" /\ ~cancelled /\ posts = 0 /\ tasks = <<>>
  /\ cancelled' = TRUE
  /\ \E goesOn \in {{Protocol}, {Protocol, Mesh}} :
       LET cut == {i \in Subsystems \ goesOn : sub[i] = "stopping"} IN
       /\ sub' = [i \in Subsystems |-> IF i \in cut THEN "aborted" ELSE sub[i]]
       /\ at' = IF at \in cut THEN 0 ELSE at
  /\ UNCHANGED <<state, main, found, posts, tasks, signalled>>

(* Mutant of Exit: the process waits until the node is STOPPED.              *)
ExitStopped ==
  /\ main = "returned" /\ cancelled /\ state = "STOPPED" /\ \A i \in Subsystems : sub[i] # "stopping"
  /\ main' = "exited"
  /\ UNCHANGED <<state, sub, found, at, posts, tasks, signalled, cancelled>>

Exit ==
  /\ main = "returned" /\ cancelled /\ \A i \in Subsystems : sub[i] # "stopping"
  /\ main' = "exited"
  /\ UNCHANGED <<state, sub, found, at, posts, tasks, signalled, cancelled>>

Next ==
  \/ \E i \in Subsystems : Start(i) \/ StartFails(i) \/ Started(i) \/ StopEnds(i)
  \/ Boot \/ BootFails \/ Interrupt
  \/ Signal \/ Post \/ ServeReturns \/ Begin \/ BeginTask \/ Cancel \/ Exit

Spec == Init /\ [][Next]_vars

(* Tasks run, each start() and stop() ends, and so do the requests that      *)
(* uvicorn waits for.                                                        *)
FairSpec ==
  /\ Spec
  /\ \A i \in Subsystems : WF_vars(Start(i)) /\ WF_vars(Started(i) \/ StartFails(i)) /\ WF_vars(StopEnds(i))
  /\ WF_vars(Boot \/ BootFails) /\ WF_vars(ServeReturns) /\ WF_vars(Begin) /\ WF_vars(BeginTask) /\ WF_vars(Cancel) /\ WF_vars(Exit)
-----------------------------------------------------------------------------
(* What uses another subsystem is stopped before it: whichever shutdown is   *)
(* under way, stop() of a subsystem begins after that of every later one     *)
(* that was registered; where it was asked for over the API, after it ended. *)
Lifo == [][\A i \in Subsystems, j \in 1 .. found' :
  sub[i] = "up" /\ sub'[i] = "stopping" /\ i < j =>
    sub'[j] \in (IF at' = i THEN {"down", "failed"} ELSE {"stopping", "down", "failed"})]_vars

(* A node that says STOPPED has forgotten no callback: what was registered   *)
(* when it began to shut down is down, or its task is at least on its way.   *)
NoneForgotten == state = "STOPPED" =>
  \A i \in 1 .. found : sub[i] # "up" \/ \E k \in DOMAIN tasks : tasks[k] = i

(* A request to shut down is followed by STOPPED, or by the end of the       *)
(* process, though signals come and stop() of a subsystem may fail.          *)
PostStops == posts > 0 ~> state = "STOPPED" \/ main = "exited"

(* A signal that comes while the API is served ends the process, even when a *)
(* shutdown asked for over the API is under way.                             *)
SignalExits == signalled ~> main = "exited"
=============================================================================
