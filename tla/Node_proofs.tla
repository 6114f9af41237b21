------------------------------ MODULE Node_proofs ------------------------------
(* Theorems about the parts of the node that run in its own process and their *)
(* proofs: its life cycle (NodeServer), the identity that it publishes        *)
(* (NodeIdentity) and the API that it serves (CanvasApi).                     *)
EXTENDS NodeServer, NodeIdentity, CanvasApi, FiniteSetTheorems, TLAPS

-----------------------------------------------------------------------------
(* NodeServer: the order in which subsystems start and stop.                 *)

\* Subsystems are registered in the order main() starts them.
InOrder == \A i, j \in Subsystems :
  i < j /\ sub[i] \in {"new", "starting"} => sub[j] = "new"

\* Nothing stops before a shutdown has begun.
NotYet ==
  /\ state \in {"BOOTING", "RUNNING"} =>
       /\ found = 0 /\ at = 0 /\ tasks = <<>>
       /\ \A i \in Subsystems : sub[i] \in {"new", "starting", "up"}
  /\ state = "BOOTING" => posts = 0 /\ main \notin {"starts", "serves"}
  /\ main = "boots" => state = "BOOTING" /\ \A i \in Subsystems : sub[i] = "new"

\* The callbacks of a shutdown are the first ones of those registered.
Known == \A i \in 1 .. found : i \in Registered

\* shutdown() goes down to the first callback; what has left its tasks stops.
Descending ==
  /\ tasks # <<>> => state = "STOPPED"
  /\ Len(tasks) <= found
  /\ \A k \in DOMAIN tasks : tasks[k] = Len(tasks) + 1 - k
  /\ tasks # <<>> => \A i \in 1 .. found :
       i > Len(tasks) => sub[i] \in {"stopping", "down", "failed"}

\* So does shutdown_async(), which waits for each.
Awaited == at > 0 => \A j \in 1 .. found : j > at => sub[j] \in {"down", "failed"}

Over == state = "STOPPED" => \A i \in 1 .. found : i > Len(tasks) => sub[i] # "up"

\* Only what is cancelled is aborted, when no task is still to begin.
Aborted ==
  /\ cancelled => main \in {"returned", "exited"} /\ posts = 0 /\ tasks = <<>>
  /\ \A i \in Subsystems : sub[i] = "aborted" => cancelled

Inv == TypeOK /\ InOrder /\ NotYet /\ Known /\ Descending /\ Awaited /\ Over /\ Aborted

-----------------------------------------------------------------------------
\* The registered subsystems are the first ones, as many as there are callbacks.
LEMMA CallbacksFirst ==
  ASSUME TypeOK, InOrder
  PROVE  Callbacks \in 0 .. 4 /\ \A i \in Subsystems : i \in Registered <=> i <= Callbacks
<1>1. PICK k \in 0 .. 4 : Registered = 1 .. k
  <2> DEFINE R(i) == sub[i] \notin {"new", "starting"}
  <2>1. \A i, j \in Subsystems : i < j /\ R(j) => R(i)
    BY DEF InOrder
  <2>2. /\ R(2) => R(1)
        /\ R(3) => R(2)
        /\ R(4) => R(3)
    <3> HIDE DEF R
    <3> QED  BY <2>1 DEF Subsystems
  <2>3. Registered = {i \in 1 .. 4 : R(i)}
    BY DEF Registered, Subsystems
  <2> HIDE DEF R
  <2>4. CASE ~R(1)
    <3>1. Registered = 1 .. 0  BY <2>2, <2>3, <2>4
    <3> QED  BY <3>1
  <2>5. CASE R(1) /\ ~R(2)
    <3>1. Registered = 1 .. 1  BY <2>2, <2>3, <2>5
    <3> QED  BY <3>1
  <2>6. CASE R(2) /\ ~R(3)
    <3>1. Registered = 1 .. 2  BY <2>2, <2>3, <2>6
    <3> QED  BY <3>1
  <2>7. CASE R(3) /\ ~R(4)
    <3>1. Registered = 1 .. 3  BY <2>2, <2>3, <2>7
    <3> QED  BY <3>1
  <2>8. CASE R(4)
    <3>1. Registered = 1 .. 4  BY <2>2, <2>3, <2>8
    <3> QED  BY <3>1
  <2> QED  BY <2>4, <2>5, <2>6, <2>7, <2>8
<1>2. Callbacks = k
  <2>1. Cardinality(1 .. k) = IF 1 > k THEN 0 ELSE k - 1 + 1
    BY FS_Interval
  <2> QED  BY <1>1, <2>1 DEF Callbacks
<1> QED  BY <1>1, <1>2 DEF Subsystems

LEMMA InitInv == ASSUME Init PROVE Inv
<1>1. sub = [i \in Subsystems |-> "new"] /\ tasks \in Seq(Subsystems) /\ Len(tasks) = 0
  BY DEF Init
<1>2. TypeOK
  <2>1. posts \in 0 .. MaxPosts /\ DOMAIN tasks = {}
    BY ServerAssumption DEF Init
  <2>2. signalled \in BOOLEAN /\ cancelled \in BOOLEAN
    BY DEF Init
  <2> QED  BY <1>1, <2>1, <2>2 DEF Init, TypeOK
<1>3. \A i \in Subsystems : sub[i] = "new"
  BY <1>1
<1>4. InOrder /\ NotYet /\ Known
  BY <1>3 DEF Init, InOrder, NotYet, Known
<1>5. Descending /\ Awaited /\ Over /\ Aborted
  BY <1>3 DEF Init, Descending, Awaited, Over, Aborted
<1> QED  BY <1>2, <1>4, <1>5 DEF Inv

\* Steps of main() that start a subsystem.
LEMMA StartInv ==
  ASSUME Inv, NEW i \in Subsystems, Start(i) \/ StartFails(i) \/ Started(i)
  PROVE  Inv'
<1>1. Callbacks \in 0 .. 4 /\ \A j \in Subsystems : j \in Registered <=> j <= Callbacks
  BY CallbacksFirst DEF Inv
<1> USE DEF Inv
<1>2. CASE Start(i)
  <2>1. \A j \in Subsystems : j < i => sub[j] \notin {"new", "starting"}
    BY <1>1, <1>2 DEF Start, Subsystems, Registered
  <2> QED
    BY <1>2, <2>1 DEF Start, TypeOK, InOrder, NotYet, Known, Descending, Awaited, Over, Aborted,
         Registered, Subsystems
<1>3. CASE StartFails(i)
  BY <1>3 DEF StartFails, TypeOK, InOrder, NotYet, Known, Descending, Awaited, Over, Aborted,
         Registered, Subsystems
<1>4. CASE Started(i)
  BY <1>4 DEF Started, TypeOK, InOrder, NotYet, Known, Descending, Awaited, Over, Aborted,
         Registered, Subsystems
<1> QED  BY <1>2, <1>3, <1>4

\* shutdown() makes the tasks of every callback there is.
LEMMA ShutdownInv ==
  ASSUME Inv, Shutdown, UNCHANGED <<sub, at, posts, cancelled>>,
         signalled' \in BOOLEAN,
         main \in {"starts", "serves"}, main' \in {main, "returned"}
  PROVE  Inv'
<1>1. Callbacks \in 0 .. 4 /\ \A j \in Subsystems : j \in Registered <=> j <= Callbacks
  BY CallbacksFirst DEF Inv
<1> USE DEF Inv
<1>2. CASE state # "RUNNING"
  BY <1>2 DEF Shutdown, TypeOK, InOrder, NotYet, Known, Descending, Awaited, Over, Aborted,
         Registered, Subsystems
<1>3. CASE state = "RUNNING"
  <2>1. /\ state' = "STOPPED" /\ found' = Callbacks /\ at = 0
        /\ tasks' = [k \in 1 .. Callbacks |-> Callbacks + 1 - k]
        /\ \A i \in Subsystems : sub[i] \in {"new", "starting", "up"}
    BY <1>3 DEF Shutdown, NotYet
  <2>2. /\ tasks' \in Seq(Subsystems) /\ Len(tasks') = Callbacks
        /\ DOMAIN tasks' = 1 .. Callbacks
        /\ \A k \in 1 .. Callbacks : tasks'[k] = Callbacks + 1 - k
    BY <1>1, <2>1 DEF Subsystems
  <2>3. \A i \in 1 .. Callbacks : i \in Subsystems /\ i \in Registered
    BY <1>1 DEF Subsystems
  <2>4. \A k \in DOMAIN tasks' : sub[tasks'[k]] = "up"
    BY <1>1, <2>1, <2>2, <2>3 DEF Registered
  <2>5. TypeOK'
    BY <1>1, <2>1, <2>2, <2>4 DEF TypeOK
  <2>6. Known' /\ InOrder' /\ Aborted' /\ NotYet'
    BY <1>1, <2>1, <2>3 DEF Known, InOrder, Aborted, NotYet, Registered
  <2>7. Descending' /\ Awaited' /\ Over'
    BY <1>1, <2>1, <2>2 DEF Descending, Awaited, Over
  <2> QED  BY <2>5, <2>6, <2>7
<1> QED  BY <1>2, <1>3 DEF TypeOK

\* The other steps of main(), signals and requests.
LEMMA MainInv ==
  ASSUME Inv, Boot \/ BootFails \/ Interrupt \/ Post \/ Signal \/ ServeReturns
  PROVE  Inv'
<1>1. CASE Signal /\ main = "starts"
  BY <1>1, ShutdownInv DEF Signal, Inv, TypeOK
<1>2. CASE ServeReturns
  BY <1>2, ShutdownInv DEF ServeReturns, Inv, TypeOK
<1>3. CASE Signal /\ main # "starts"
  <2>1. main = "serves" /\ signalled' \in BOOLEAN
        /\ UNCHANGED <<state, main, sub, found, at, posts, tasks, cancelled>>
    BY <1>3 DEF Signal
  <2> QED
    BY <2>1 DEF Inv, TypeOK, InOrder, NotYet, Known, Descending, Awaited, Over, Aborted, Registered
<1>4. CASE Boot \/ BootFails \/ Interrupt
  BY <1>4 DEF Boot, BootFails, Interrupt, Inv, TypeOK, InOrder, NotYet, Known, Descending,
         Awaited, Over, Aborted, Registered
<1>5. CASE Post
  BY <1>5, ServerAssumption DEF Post, Inv, TypeOK, InOrder, NotYet, Known, Descending,
         Awaited, Over, Aborted, Registered
<1> QED  BY <1>1, <1>2, <1>3, <1>4, <1>5

\* shutdown_async() awaits the stop of the callback k when all later ones have
\* ended, where s is what the subsystems do.
LEMMA GoesInv ==
  ASSUME Inv, state \in {"RUNNING", "SHUTTING_DOWN"}, tasks = <<>>,
         NEW k \in 0 .. found', NEW s, Goes(k, s),
         s \in [Subsystems -> {"new", "starting", "up", "stopping", "down", "failed", "aborted"}],
         \A i \in Subsystems : s[i] \in {"new", "starting"} <=> sub[i] \in {"new", "starting"},
         \A i \in Subsystems : s[i] = "new" <=> sub[i] = "new",
         \A i \in Subsystems : s[i] = "aborted" => sub[i] = "aborted",
         found' \in 0 .. 4, \A i \in 1 .. found' : i \in Registered,
         \A i \in 1 .. found' : i > k => s[i] \in {"down", "failed"},
         posts' \in 0 .. posts, UNCHANGED <<main, tasks, signalled, cancelled>>
  PROVE  Inv'
<1>1. /\ at' = k /\ state' \in {"SHUTTING_DOWN", "STOPPED"}
      /\ k = 0 => sub' = s
      /\ k > 0 => state' = "SHUTTING_DOWN" /\ sub' = [s EXCEPT ![k] = "stopping"]
  BY DEF Goes
<1>2. \A i \in 1 .. found' : i \in Subsystems
  BY DEF Subsystems
<1>3. /\ sub' \in [Subsystems -> {"new", "starting", "up", "stopping", "down", "failed", "aborted"}]
      /\ \A i \in Subsystems : i # k => sub'[i] = s[i]
      /\ k > 0 => sub'[k] = "stopping"
  BY <1>1, <1>2
<1>4. TypeOK'
  <2>1. posts' \in 0 .. MaxPosts /\ DOMAIN tasks' = {} /\ at' \in 0 .. found'
    BY <1>1, ServerAssumption DEF Inv, TypeOK
  <2> QED  BY <1>1, <1>3, <2>1 DEF Inv, TypeOK
<1>5. k > 0 => sub[k] \notin {"new", "starting"}
  BY <1>2 DEF Registered
<1>6. InOrder' /\ Known'
  BY <1>2, <1>3, <1>5 DEF Inv, InOrder, Known, Registered
<1>7. NotYet'
  BY <1>1 DEF Inv, NotYet
<1>8. Awaited' /\ Over' /\ Descending'
  BY <1>1, <1>2, <1>3 DEF Inv, Awaited, Over, Descending
<1>9. Aborted'
  BY <1>3 DEF Inv, Aborted, TypeOK
<1> QED  BY <1>4, <1>6, <1>7, <1>8, <1>9 DEF Inv

LEMMA BeginInv == ASSUME Inv, Begin PROVE Inv'
<1>1. Callbacks \in 0 .. 4 /\ \A i \in Subsystems : i \in Registered <=> i <= Callbacks
  BY CallbacksFirst DEF Inv
<1>2. posts' \in 0 .. MaxPosts /\ posts' \in 0 .. posts /\ posts > 0
  BY ServerAssumption DEF Inv, TypeOK, Begin
<1>3. CASE state = "RUNNING"
  <2>1. found' = Callbacks /\ Goes(Callbacks, sub) /\ tasks = <<>>
    BY <1>3 DEF Begin, Inv, NotYet
  <2>2. \A i \in 1 .. Callbacks : i \in Registered
    BY <1>1 DEF Subsystems
  <2>3. /\ sub \in [Subsystems -> {"new", "starting", "up", "stopping", "down", "failed", "aborted"}]
        /\ UNCHANGED <<main, tasks, signalled, cancelled>>
    BY DEF Inv, TypeOK, Begin
  <2>4. Callbacks \in 0 .. found' /\ \A i \in 1 .. found' : ~(i > Callbacks)
    BY <1>1, <2>1
  <2> QED  BY <1>1, <1>2, <1>3, <2>1, <2>2, <2>3, <2>4, GoesInv
<1>4. CASE state # "RUNNING"
  BY <1>2, <1>4 DEF Begin, Inv, TypeOK, InOrder, NotYet, Known, Descending, Awaited, Over, Aborted,
         Registered
<1> QED  BY <1>3, <1>4

\* The task of shutdown() that begins is that of the last subsystem left.
LEMMA NextTask ==
  ASSUME Inv, tasks # <<>>
  PROVE  /\ Head(tasks) = Len(tasks) /\ Len(tasks) \in 1 .. found
         /\ Head(tasks) \in Subsystems /\ sub[Head(tasks)] = "up"
         /\ Len(Tail(tasks)) = Len(tasks) - 1 /\ Tail(tasks) \in Seq(Subsystems)
         /\ \A k \in DOMAIN Tail(tasks) : Tail(tasks)[k] = Len(tasks) - k
<1>1. tasks \in Seq(Subsystems) /\ found \in 0 .. 4 /\ Len(tasks) <= found
  BY DEF Inv, TypeOK, Descending
<1>2. Len(tasks) >= 1 /\ Head(tasks) = tasks[1] /\ 1 \in DOMAIN tasks
  BY <1>1
<1>3. \A k \in 1 .. Len(tasks) : tasks[k] = Len(tasks) + 1 - k
  BY <1>1 DEF Inv, Descending
<1>4. /\ Len(Tail(tasks)) = Len(tasks) - 1 /\ Tail(tasks) \in Seq(Subsystems)
      /\ \A k \in 1 .. (Len(tasks) - 1) : Tail(tasks)[k] = tasks[k + 1]
  BY <1>1, <1>2
<1>5. \A k \in 1 .. (Len(tasks) - 1) : Tail(tasks)[k] = Len(tasks) - k
  BY <1>1, <1>3, <1>4
<1>6. DOMAIN Tail(tasks) = 1 .. (Len(tasks) - 1)
  BY <1>1, <1>4
<1>7. sub[tasks[1]] = "up"
  BY <1>2 DEF Inv, TypeOK
<1> QED  BY <1>1, <1>2, <1>3, <1>4, <1>5, <1>6, <1>7

LEMMA BeginTaskInv == ASSUME Inv, BeginTask PROVE Inv'
<1> DEFINE h == Head(tasks)
<1>1. /\ tasks # <<>> /\ tasks' = Tail(tasks) /\ sub' = [sub EXCEPT ![h] = "stopping"]
      /\ UNCHANGED <<state, main, found, at, posts, signalled, cancelled>>
  BY DEF BeginTask
<1>2. /\ h = Len(tasks) /\ Len(tasks) \in 1 .. found /\ h \in Subsystems /\ sub[h] = "up"
      /\ Len(tasks') = Len(tasks) - 1 /\ tasks' \in Seq(Subsystems)
      /\ \A k \in DOMAIN tasks' : tasks'[k] = Len(tasks) - k
  BY <1>1, NextTask
<1> HIDE DEF h
<1>3. state = "STOPPED" /\ ~cancelled /\ at = 0
  BY <1>1 DEF Inv, TypeOK, Descending, Aborted
<1>4. sub \in [Subsystems -> {"new", "starting", "up", "stopping", "down", "failed", "aborted"}]
      /\ found \in 0 .. 4
  BY DEF Inv, TypeOK
<1>5. /\ sub'[h] = "stopping" /\ \A i \in Subsystems : i # h => sub'[i] = sub[i]
      /\ sub' \in [Subsystems -> {"new", "starting", "up", "stopping", "down", "failed", "aborted"}]
  BY <1>1, <1>2, <1>4
<1>6. \A k \in DOMAIN tasks' : tasks'[k] # h /\ tasks'[k] \in Subsystems /\ sub'[tasks'[k]] = "up"
  <2> TAKE k \in DOMAIN tasks'
  <2>1. k \in 1 .. Len(tasks') /\ k + 1 \in DOMAIN tasks /\ tasks[k + 1] = tasks'[k]
    BY <1>1, <1>2 DEF Inv, TypeOK
  <2>2. sub[tasks'[k]] = "up" /\ tasks'[k] \in Subsystems
    BY <1>2, <2>1 DEF Inv, TypeOK
  <2>3. tasks'[k] # h
    BY <1>2, <2>1
  <2> QED  BY <1>5, <2>2, <2>3
<1>7. TypeOK'
  BY <1>1, <1>2, <1>3, <1>5, <1>6 DEF Inv, TypeOK
<1>8. InOrder' /\ Known'
  BY <1>1, <1>2, <1>5 DEF Inv, InOrder, Known, Registered
<1>9. NotYet' /\ Awaited'
  BY <1>1, <1>3, <1>5 DEF Inv, NotYet, Awaited
<1>10. \A i \in 1 .. found : i \in Subsystems
  BY <1>4 DEF Subsystems
<1>11. \A i \in 1 .. found : i > Len(tasks') => sub'[i] \in {"stopping", "down", "failed"}
  BY <1>1, <1>2, <1>4, <1>5, <1>10 DEF Inv, Descending
<1>12. Descending' /\ Over'
  BY <1>1, <1>2, <1>3, <1>4, <1>11 DEF Inv, Descending, Over
<1>13. Aborted'
  BY <1>1, <1>3, <1>5 DEF Inv, Aborted
<1> QED  BY <1>7, <1>8, <1>9, <1>12, <1>13 DEF Inv

LEMMA StopEndsInv == ASSUME Inv, NEW i \in Subsystems, StopEnds(i) PROVE Inv'
<1>1. PICK r \in {"down", "failed"} :
        IF at = i THEN Goes(i - 1, [sub EXCEPT ![i] = r])
        ELSE sub' = [sub EXCEPT ![i] = r] /\ UNCHANGED <<state, at>>
  BY DEF StopEnds
<1> DEFINE s == [sub EXCEPT ![i] = r]
<1>2. sub[i] = "stopping" /\ UNCHANGED <<main, found, posts, tasks, signalled, cancelled>>
  BY DEF StopEnds
<1>3. /\ s[i] \in {"down", "failed"} /\ \A j \in Subsystems : j # i => s[j] = sub[j]
      /\ s \in [Subsystems -> {"new", "starting", "up", "stopping", "down", "failed", "aborted"}]
  BY DEF Inv, TypeOK
<1>4. found \in 0 .. 4 /\ at \in 0 .. found /\ posts \in 0 .. posts
  BY ServerAssumption DEF Inv, TypeOK
<1>5. CASE at = i
  <2>1. state = "SHUTTING_DOWN" /\ tasks = <<>>
    BY <1>5 DEF Inv, TypeOK, Descending, Subsystems
  <2>2. i - 1 \in 0 .. found' /\ Goes(i - 1, s)
    BY <1>1, <1>2, <1>4, <1>5 DEF Subsystems
  <2>3. \A j \in 1 .. found' : j \in Subsystems /\ j \in Registered
    BY <1>2, <1>4 DEF Inv, Known, Subsystems
  <2>4. \A j \in 1 .. found' : j > i - 1 => s[j] \in {"down", "failed"}
    BY <1>2, <1>3, <1>4, <1>5, <2>3 DEF Inv, Awaited, Subsystems
  <2> HIDE DEF s
  <2> QED  BY <1>2, <1>3, <1>4, <2>1, <2>2, <2>3, <2>4, GoesInv
<1>6. CASE at # i
  <2>1. sub' = s /\ UNCHANGED <<state, at>>
    BY <1>1, <1>6
  <2> HIDE DEF s
  <2>2. at > 0 => sub[at] = "stopping" /\ at \in Subsystems
    BY <1>4 DEF Inv, TypeOK, Subsystems
  <2>3. \A k \in DOMAIN tasks : tasks[k] \in Subsystems /\ sub[tasks[k]] = "up"
    BY DEF Inv, TypeOK
  <2>4. TypeOK'
    BY <1>2, <1>3, <1>6, <2>1, <2>2, <2>3 DEF Inv, TypeOK
  <2>5. InOrder' /\ Known' /\ NotYet'
    BY <1>2, <1>3, <2>1 DEF Inv, InOrder, Known, NotYet, Registered
  <2>6. \A j \in 1 .. found : j \in Subsystems
    BY <1>4 DEF Subsystems
  <2>7. Descending' /\ Awaited' /\ Over' /\ Aborted'
    BY <1>2, <1>3, <2>1, <2>6 DEF Inv, Descending, Awaited, Over, Aborted
  <2> QED  BY <2>4, <2>5, <2>7 DEF Inv
<1> QED  BY <1>5, <1>6

LEMMA EndInv == ASSUME Inv, Cancel \/ Exit PROVE Inv'
<1>1. CASE Cancel
  <2>1. PICK goesOn \in {{Protocol}, {Protocol, Mesh}} :
          LET cut == {i \in Subsystems \ goesOn : sub[i] = "stopping"} IN
            /\ sub' = [i \in Subsystems |-> IF i \in cut THEN "aborted" ELSE sub[i]]
            /\ at' = IF at \in cut THEN 0 ELSE at
    BY <1>1 DEF Cancel
  <2> DEFINE cut == {i \in Subsystems \ goesOn : sub[i] = "stopping"}
  <2>2. /\ main = "returned" /\ cancelled' = TRUE /\ posts = 0 /\ tasks = <<>>
        /\ UNCHANGED <<state, main, found, posts, tasks, signalled>>
    BY <1>1 DEF Cancel
  <2>3. /\ sub' \in [Subsystems -> {"new", "starting", "up", "stopping", "down", "failed", "aborted"}]
        /\ \A i \in Subsystems : sub'[i] = sub[i] \/ (sub[i] = "stopping" /\ sub'[i] = "aborted")
        /\ at' \in {0, at}
        /\ at' > 0 => sub'[at'] = sub[at]
    <3>1. /\ sub' = [i \in Subsystems |-> IF i \in cut THEN "aborted" ELSE sub[i]]
          /\ at' = IF at \in cut THEN 0 ELSE at
      BY <2>1
    <3>2. at > 0 => at \in Subsystems
      BY DEF Inv, TypeOK, Subsystems
    <3>3. sub \in [Subsystems -> {"new", "starting", "up", "stopping", "down", "failed", "aborted"}]
          /\ at \in Nat
      BY DEF Inv, TypeOK
    <3>4. \A i \in cut : sub[i] = "stopping"
      OBVIOUS
    <3> HIDE DEF cut
    <3>5. at' > 0 => at' = at /\ at \notin cut
      BY <3>1
    <3>6. \A i \in Subsystems : sub'[i] = IF i \in cut THEN "aborted" ELSE sub[i]
      BY <3>1
    <3>7. /\ sub' \in [Subsystems -> {"new", "starting", "up", "stopping", "down", "failed", "aborted"}]
          /\ \A i \in Subsystems : sub'[i] = sub[i] \/ (sub[i] = "stopping" /\ sub'[i] = "aborted")
      <4>1. \A i \in Subsystems : i \in cut => sub[i] = "stopping"
        BY <3>4
      <4>2. \A i \in Subsystems : sub'[i] \in {"new", "starting", "up", "stopping", "down", "failed", "aborted"}
        BY <3>3, <3>6
      <4>3. \A i \in Subsystems : sub'[i] = sub[i] \/ (sub[i] = "stopping" /\ sub'[i] = "aborted")
        BY <3>6, <4>1
      <4> QED  BY <3>1, <4>2, <4>3
    <3>8. at' \in {0, at}
      BY <3>1
    <3>9. at' > 0 => sub'[at'] = sub[at]
      <4> HAVE at' > 0
      <4>1. at' = at /\ at \notin cut /\ at \in Subsystems  BY <3>2, <3>5
      <4> QED  BY <3>6, <4>1
    <3> QED  BY <3>7, <3>8, <3>9
  <2>4. cancelled' \in BOOLEAN /\ DOMAIN tasks' = {}
    BY <2>2
  <2> HIDE DEF cut
  <2>5. TypeOK'
    BY <2>2, <2>3, <2>4 DEF Inv, TypeOK
  <2>6. \A i \in 1 .. found : i \in Subsystems
    BY DEF Inv, TypeOK, Subsystems
  <2>7. InOrder' /\ Known' /\ NotYet'
    BY <2>2, <2>3, <2>6 DEF Inv, InOrder, Known, NotYet, Registered
  <2>8. Descending' /\ Awaited' /\ Over' /\ Aborted'
    BY <2>2, <2>3, <2>6 DEF Inv, Descending, Awaited, Over, Aborted
  <2> QED  BY <2>5, <2>7, <2>8 DEF Inv
<1>2. CASE Exit
  BY <1>2 DEF Exit, Inv, TypeOK, InOrder, NotYet, Known, Descending, Awaited, Over, Aborted, Registered
<1> QED  BY <1>1, <1>2

LEMMA StepInv == ASSUME Inv, [Next]_vars PROVE Inv'
<1>1. CASE UNCHANGED vars
  BY <1>1 DEF vars, Inv, TypeOK, InOrder, NotYet, Known, Descending, Awaited, Over, Aborted, Registered
<1>2. CASE \E i \in Subsystems : Start(i) \/ StartFails(i) \/ Started(i)
  BY <1>2, StartInv
<1>3. CASE \E i \in Subsystems : StopEnds(i)
  BY <1>3, StopEndsInv
<1>4. CASE Boot \/ BootFails \/ Interrupt \/ Post \/ Signal \/ ServeReturns
  BY <1>4, MainInv
<1>5. CASE Begin
  BY <1>5, BeginInv
<1>6. CASE BeginTask
  BY <1>6, BeginTaskInv
<1>7. CASE Cancel \/ Exit
  BY <1>7, EndInv
<1> QED  BY <1>1, <1>2, <1>3, <1>4, <1>5, <1>6, <1>7 DEF Next

LEMMA AlwaysInv == Spec => []Inv
<1>1. Init => Inv  BY InitInv
<1>2. Inv /\ [Next]_vars => Inv'  BY StepInv
<1> QED  BY <1>1, <1>2, PTL DEF Spec

-----------------------------------------------------------------------------
(* A shutdown awaits a registered subsystem that is stopping, and the tasks  *)
(* that shutdown() made and that have not begun are of subsystems still up,  *)
(* for every number of requests to shut down.                                *)
THEOREM TypeCorrect == Spec => []TypeOK
<1>1. Inv => TypeOK  BY DEF Inv
<1> QED  BY <1>1, AlwaysInv, PTL

(* However POST /shutdown, signals and start-up interleave, a node that says *)
(* STOPPED has called stop() of every subsystem that was registered when its *)
(* shutdown began, or will when the task made for it has its turn.           *)
THEOREM NothingForgotten == Spec => []NoneForgotten
<1>1. Inv => NoneForgotten
  <2> SUFFICES ASSUME Inv, state = "STOPPED", NEW i \in 1 .. found, sub[i] = "up"
               PROVE  \E k \in DOMAIN tasks : tasks[k] = i
    BY DEF NoneForgotten
  <2>1. i \in Int /\ 1 <= i /\ i <= Len(tasks) /\ Len(tasks) \in Nat /\ DOMAIN tasks = 1 .. Len(tasks)
    BY DEF Inv, TypeOK, Over
  <2> DEFINE k == Len(tasks) + 1 - i
  <2>2. k \in DOMAIN tasks /\ Len(tasks) + 1 - k = i
    BY <2>1
  <2>3. tasks[k] = i
    BY <2>2 DEF Inv, Descending
  <2> QED  BY <2>2, <2>3
<1> QED  BY <1>1, AlwaysInv, PTL

\* A step of shutdown_async() finds all later subsystems ended.
LEMMA GoesLifo ==
  ASSUME Inv, NEW k \in 0 .. found', NEW s, Goes(k, s), found' \in 0 .. 4,
         s \in [Subsystems -> {"new", "starting", "up", "stopping", "down", "failed", "aborted"}],
         \A j \in 1 .. found' : j > k => s[j] \in {"down", "failed"},
         NEW i \in Subsystems, s[i] # "stopping", sub'[i] = "stopping",
         NEW j \in 1 .. found', i < j
  PROVE  at' = i /\ sub'[j] \in {"down", "failed"}
<1>1. k > 0 /\ k \in Subsystems /\ at' = k /\ sub' = [s EXCEPT ![k] = "stopping"]
  BY DEF Goes, Subsystems
<1>2. i = k
  BY <1>1
<1>3. j \in Subsystems /\ j # k
  BY <1>2 DEF Subsystems
<1> QED  BY <1>1, <1>2, <1>3 DEF Subsystems

(* Whichever way a shutdown was asked for, no subsystem begins to stop       *)
(* before the later ones do; in shutdown_async() it waits for their end.     *)
THEOREM LastInFirstOut == Spec => Lifo
<1> DEFINE L == \A i \in Subsystems, j \in 1 .. found' :
                  sub[i] = "up" /\ sub'[i] = "stopping" /\ i < j =>
                    sub'[j] \in (IF at' = i THEN {"down", "failed"} ELSE {"stopping", "down", "failed"})
<1>1. ASSUME Inv, [Next]_vars PROVE L
  <2> SUFFICES ASSUME NEW i \in Subsystems, NEW j \in 1 .. found',
                      sub[i] = "up", sub'[i] = "stopping", i < j
               PROVE  sub'[j] \in (IF at' = i THEN {"down", "failed"} ELSE {"stopping", "down", "failed"})
    OBVIOUS
  <2>1. CASE BeginTask
    <3>1. /\ tasks # <<>> /\ sub' = [sub EXCEPT ![Head(tasks)] = "stopping"]
          /\ UNCHANGED <<found, at, state>>
      BY <2>1 DEF BeginTask
    <3>2. Head(tasks) = Len(tasks) /\ Head(tasks) \in Subsystems
      BY <1>1, <3>1, NextTask
    <3>3. i = Len(tasks)
      BY <1>1, <3>1, <3>2 DEF Inv, TypeOK
    <3>4. at' # i
      BY <1>1, <3>1 DEF Inv, TypeOK, Descending, Subsystems
    <3>5. sub[j] \in {"stopping", "down", "failed"}
      BY <1>1, <3>1, <3>3 DEF Inv, Descending
    <3>6. j # Head(tasks)
      BY <3>2, <3>3 DEF Subsystems
    <3> QED  BY <3>1, <3>4, <3>5, <3>6 DEF Subsystems
  <2>2. CASE Begin
    <3>1. state = "RUNNING" /\ found' = Callbacks /\ Goes(Callbacks, sub)
      BY <2>2 DEF Begin
    <3>2. Callbacks \in 0 .. 4
      BY <1>1, CallbacksFirst DEF Inv
    <3>3. \A m \in 1 .. found' : ~(m > Callbacks)
      BY <3>1, <3>2
    <3>4. sub \in [Subsystems -> {"new", "starting", "up", "stopping", "down", "failed", "aborted"}]
      BY <1>1 DEF Inv, TypeOK
    <3> QED  BY <1>1, <3>1, <3>2, <3>3, <3>4, GoesLifo
  <2>3. CASE \E n \in Subsystems : StopEnds(n)
    <3>1. PICK n \in Subsystems : StopEnds(n)
      BY <2>3
    <3>2. PICK r \in {"down", "failed"} :
            IF at = n THEN Goes(n - 1, [sub EXCEPT ![n] = r])
            ELSE sub' = [sub EXCEPT ![n] = r]
      BY <3>1 DEF StopEnds
    <3> DEFINE s == [sub EXCEPT ![n] = r]
    <3>3. /\ s \in [Subsystems -> {"new", "starting", "up", "stopping", "down", "failed", "aborted"}]
          /\ s[n] \in {"down", "failed"} /\ \A m \in Subsystems : m # n => s[m] = sub[m]
      BY <1>1 DEF Inv, TypeOK
    <3>4. s[i] # "stopping"
      BY <3>3
    <3>5. at = n /\ Goes(n - 1, s)
      BY <3>2, <3>4
    <3>6. found' = found /\ found \in 0 .. 4 /\ at \in 0 .. found /\ n - 1 \in 0 .. found'
      BY <1>1, <3>1, <3>5 DEF Inv, TypeOK, StopEnds, Subsystems
    <3>7. \A m \in 1 .. found' : m > n - 1 => s[m] \in {"down", "failed"}
      BY <1>1, <3>3, <3>5, <3>6 DEF Inv, Awaited, Subsystems
    <3> HIDE DEF s
    <3> QED  BY <1>1, <3>3, <3>4, <3>5, <3>6, <3>7, GoesLifo
  <2>4. CASE \E n \in Subsystems : Start(n) \/ StartFails(n) \/ Started(n)
    BY <1>1, <2>4 DEF Start, StartFails, Started, Inv, TypeOK
  <2>5. CASE Boot \/ BootFails \/ Interrupt \/ Post \/ Signal \/ ServeReturns \/ Exit \/ UNCHANGED vars
    BY <2>5 DEF Boot, BootFails, Interrupt, Post, Signal, ServeReturns, Exit, vars
  <2>6. CASE Cancel
    <3>1. sub'[i] \in {"aborted", sub[i]}
      BY <2>6 DEF Cancel
    <3> QED  BY <3>1
  <2> QED  BY <1>1, <2>1, <2>2, <2>3, <2>4, <2>5, <2>6 DEF Next
<1>2. Inv /\ [Next]_vars => [L]_vars
  BY <1>1
<1> QED  BY <1>2, AlwaysInv, PTL DEF Spec, Lifo

-----------------------------------------------------------------------------
(* NodeIdentity: what a process has read and made at each of its points.     *)

\* where a process that read a key file is, before it has decrypted it
Reading == {<<"salt">>, <<"secret">>, <<"decrypt">>} \cup {"open", "fill"} \X Materials

\* what a process remembers
Memory == [salt : Material \cup {Absent}, secret : Material \cup {Absent},
           file : KeyFile \cup {Absent, Empty}, key : Nat, id : Nat]

Shapes == disk = [f \in Files |-> disk[f]] /\ mem \in [Procs -> Memory]

\* No key is there that was not made.
Made ==
  /\ disk.key \in KeyFile => disk.key.key <= made
  /\ disk.meta \in Keys => disk.meta <= made
  /\ \A p \in Procs : mem[p].file \in KeyFile => mem[p].file.key <= made

\* Who has read no key file has a key of its own; what a key is encrypted under
\* is at hand when it is written.
Stage(p) ==
  /\ pc[p] = <<"idle">> => mem[p] = Fresh
  /\ mem[p].file # Absent => pc[p] \in Reading
  /\ pc[p] # <<"idle">> /\ mem[p].file = Absent => NoKey \notin {mem[p].key, mem[p].id}
  /\ pc[p] \in {<<"secret">>} \cup {"open", "fill"} \X {"secret", "key"} => mem[p].salt \in Material
  /\ pc[p] \in {"open", "fill"} \X {"key"} => mem[p].secret \in Material

MemInv == IdentityTypeOK /\ Shapes /\ Made /\ \A p \in Procs : Stage(p)

\* A process creates an identity until it writes the key, or takes the one that
\* is there until it has decrypted it; then it has the key.
Beginning(p) == /\ mem[p].file = Absent
                /\ pc[p] \in {<<"salt">>, <<"secret">>, <<"open", "key">>} \cup {"open", "fill"} \X Materials
Loading(p) == mem[p].file # Absent /\ pc[p] \in {<<"salt">>, <<"secret">>, <<"decrypt">>}
Holding(p) == pc[p] \in {<<"meta">>, <<"open", "meta">>, <<"fill", "meta">>, <<"boot">>, <<"up">>}
Idle(p) == pc[p] = <<"idle">>
Writing(p) == pc[p] = <<"fill", "key">>

\* Who creates an identity is alone until the key file is there; those who read
\* it before it is filled find it empty; who has a key has the one on disk.
Alone(p) ==
  /\ Beginning(p) => disk.key = Absent /\ \A q \in Procs \ {p} : Idle(q)
  /\ Writing(p) => disk.key = Empty /\ \A q \in Procs \ {p} : Idle(q) \/ Loading(q)
  /\ Loading(p) => /\ mem[p].file \in {Empty, disk.key} /\ mem[p].key = NoKey
                   /\ Absent \notin {disk.salt, disk.secret}
  /\ Holding(p) => mem[p].key = DiskKey /\ mem[p].id = DiskKey /\ DiskKey # NoKey
  /\ Idle(p) \/ Beginning(p) \/ Writing(p) \/ Loading(p) \/ Holding(p)

\* The key will be encrypted under the salt and the secret on disk.
Materialised(p) ==
  /\ pc[p] = <<"fill", "salt">> => disk.salt = Empty
  /\ pc[p] = <<"fill", "secret">> => disk.secret = Empty
  /\ Beginning(p) /\ pc[p] \in {<<"secret">>} \cup {"open", "fill"} \X {"secret", "key"} => mem[p].salt = disk.salt
  /\ pc[p] \in {"open", "fill"} \X {"key"} => mem[p].salt = disk.salt /\ mem[p].secret = disk.secret

\* While no two processes create an identity at once, a key that is there can be
\* decrypted, and nothing published or in the meta file differs from it.
KeyInv == ~raced =>
  /\ disk.key \notin {Absent, Empty} => Decrypts(disk.key, disk.salt, disk.secret)
  /\ disk.key # Absent => Absent \notin {disk.salt, disk.secret}
  /\ disk.meta \notin {Absent, Empty} => disk.meta = DiskKey
  /\ \A x \in published : x.id = DiskKey /\ x.key = DiskKey /\ DiskKey # NoKey
  /\ \A p \in Procs : Alone(p) /\ Materialised(p)

\* What a step learns is one field of one process.
LEMMA Learned ==
  ASSUME Shapes, NEW p \in Procs, NEW x \in {"salt", "secret", "file", "key", "id"}, NEW v, Learns(p, x, v)
  PROVE  /\ \A q \in Procs \ {p} : mem'[q] = mem[q]
         /\ DOMAIN mem' = Procs
         /\ DOMAIN mem'[p] = DOMAIN mem[p]
         /\ mem'[p].salt = IF x = "salt" THEN v ELSE mem[p].salt
         /\ mem'[p].secret = IF x = "secret" THEN v ELSE mem[p].secret
         /\ mem'[p].file = IF x = "file" THEN v ELSE mem[p].file
         /\ mem'[p].key = IF x = "key" THEN v ELSE mem[p].key
         /\ mem'[p].id = IF x = "id" THEN v ELSE mem[p].id
  BY DEF Shapes, Learns, Memory

LEMMA MemLoad ==
  ASSUME MemInv, NEW p \in Procs, Load(p)
  PROVE  MemInv'
<1> USE IdentityAssumption DEF NoKey, Keys, Files, Materials
<1>1. Shapes'
  BY DEF MemInv, IdentityTypeOK, Shapes, Memory, Fresh, Stage, Reading, KeyFile, Material,
     Load, Moves, Learns, Keeps, limits
<1>2. \A q \in Procs \ {p} : mem'[q] = mem[q] /\ pc'[q] = pc[q]
  BY DEF MemInv, IdentityTypeOK, Shapes, Load, Moves, Learns, Keeps, limits
<1>3. Made'
  BY <1>2 DEF MemInv, IdentityTypeOK, Shapes, Memory, Made, Fresh, Stage, Reading, KeyFile,
     Load, Moves, Learns, Keeps, limits
<1>4. Stage(p)'
  BY DEF MemInv, IdentityTypeOK, Shapes, Memory, Made, Fresh, Stage, Reading, KeyFile, Load,
     Moves, Learns, Keeps, limits
<1>5. \A q \in Procs : Stage(q)'
  BY <1>2, <1>4 DEF MemInv, Stage
<1>6. IdentityTypeOK'
  BY DEF MemInv, IdentityTypeOK, Shapes, Memory, Points, Made, Fresh, Stage, Reading, KeyFile,
     Material, Load, Moves, Learns, Keeps, limits
<1> QED  BY <1>1, <1>3, <1>5, <1>6 DEF MemInv

LEMMA MemCreate ==
  ASSUME MemInv, NEW p \in Procs, Create(p)
  PROVE  MemInv'
<1> USE IdentityAssumption DEF NoKey, Keys, Files, Materials
<1>1. Shapes'
  BY DEF MemInv, IdentityTypeOK, Shapes, Memory, Fresh, Stage, Reading, KeyFile, Material,
     Create, Moves, Learns, Keeps, limits
<1>2. \A q \in Procs \ {p} : mem'[q] = mem[q] /\ pc'[q] = pc[q]
  BY DEF MemInv, IdentityTypeOK, Shapes, Create, Moves, Learns, Keeps, limits
<1>3. Made'
  BY <1>2 DEF MemInv, IdentityTypeOK, Shapes, Memory, Made, Fresh, Stage, Reading, KeyFile,
     Create, Moves, Learns, Keeps, limits
<1>4. Stage(p)'
  BY DEF MemInv, IdentityTypeOK, Shapes, Memory, Made, Fresh, Stage, Reading, KeyFile, Create,
     Moves, Learns, Keeps, limits
<1>5. \A q \in Procs : Stage(q)'
  BY <1>2, <1>4 DEF MemInv, Stage
<1>6. IdentityTypeOK'
  BY DEF MemInv, IdentityTypeOK, Shapes, Memory, Points, Made, Fresh, Stage, Reading, KeyFile,
     Material, Create, Moves, Learns, Keeps, limits
<1> QED  BY <1>1, <1>3, <1>5, <1>6 DEF MemInv

LEMMA MemTruncate ==
  ASSUME MemInv, NEW p \in Procs, NEW f \in Files, Truncate(p, f)
  PROVE  MemInv'
<1> USE IdentityAssumption DEF NoKey, Keys, Files, Materials
<1>1. Shapes'
  BY DEF MemInv, IdentityTypeOK, Shapes, Memory, Fresh, Stage, Reading, KeyFile, Material,
     Truncate, Moves, Learns, Keeps, limits
<1>2. \A q \in Procs \ {p} : mem'[q] = mem[q] /\ pc'[q] = pc[q]
  BY DEF MemInv, IdentityTypeOK, Shapes, Truncate, Moves, Learns, Keeps, limits
<1>3. Made'
  BY <1>2 DEF MemInv, IdentityTypeOK, Shapes, Memory, Made, Fresh, Stage, Reading, KeyFile,
     Truncate, Moves, Learns, Keeps, limits
<1>4. Stage(p)'
  BY DEF MemInv, IdentityTypeOK, Shapes, Memory, Made, Fresh, Stage, Reading, KeyFile,
     Truncate, Moves, Learns, Keeps, limits
<1>5. \A q \in Procs : Stage(q)'
  BY <1>2, <1>4 DEF MemInv, Stage
<1>6. IdentityTypeOK'
  BY DEF MemInv, IdentityTypeOK, Shapes, Memory, Points, Made, Fresh, Stage, Reading, KeyFile,
     Material, Truncate, Moves, Learns, Keeps, limits
<1> QED  BY <1>1, <1>3, <1>5, <1>6 DEF MemInv

LEMMA MemReadMeta ==
  ASSUME MemInv, NEW p \in Procs, ReadMeta(p)
  PROVE  MemInv'
<1> USE IdentityAssumption DEF NoKey, Keys, Files, Materials
<1>1. Shapes'
  BY DEF MemInv, IdentityTypeOK, Shapes, Memory, Fresh, Stage, Reading, KeyFile, Material,
     ReadMeta, Moves, Learns, Keeps, limits
<1>2. \A q \in Procs \ {p} : mem'[q] = mem[q] /\ pc'[q] = pc[q]
  BY DEF MemInv, IdentityTypeOK, Shapes, ReadMeta, Moves, Learns, Keeps, limits
<1>3. Made'
  BY <1>2 DEF MemInv, IdentityTypeOK, Shapes, Memory, Made, Fresh, Stage, Reading, KeyFile,
     ReadMeta, Moves, Learns, Keeps, limits
<1>4. Stage(p)'
  BY DEF MemInv, IdentityTypeOK, Shapes, Memory, Made, Fresh, Stage, Reading, KeyFile,
     ReadMeta, Moves, Learns, Keeps, limits
<1>5. \A q \in Procs : Stage(q)'
  BY <1>2, <1>4 DEF MemInv, Stage
<1>6. IdentityTypeOK'
  BY DEF MemInv, IdentityTypeOK, Shapes, Memory, Points, Made, Fresh, Stage, Reading, KeyFile,
     Material, ReadMeta, Moves, Learns, Keeps, limits
<1> QED  BY <1>1, <1>3, <1>5, <1>6 DEF MemInv

LEMMA MemPublish ==
  ASSUME MemInv, NEW p \in Procs, Publish(p)
  PROVE  MemInv'
<1> USE IdentityAssumption DEF NoKey, Keys, Files, Materials
<1>1. Shapes'
  BY DEF MemInv, IdentityTypeOK, Shapes, Memory, Fresh, Stage, Reading, KeyFile, Material,
     Publish, Moves, Learns, Keeps, limits, SignedCard
<1>2. \A q \in Procs \ {p} : mem'[q] = mem[q] /\ pc'[q] = pc[q]
  BY DEF MemInv, IdentityTypeOK, Shapes, Publish, Moves, Learns, Keeps, limits, SignedCard
<1>3. Made'
  BY <1>2 DEF MemInv, IdentityTypeOK, Shapes, Memory, Made, Fresh, Stage, Reading, KeyFile,
     Publish, Moves, Learns, Keeps, limits, SignedCard
<1>4. Stage(p)'
  BY DEF MemInv, IdentityTypeOK, Shapes, Memory, Made, Fresh, Stage, Reading, KeyFile, Publish,
     Moves, Learns, Keeps, limits, SignedCard
<1>5. \A q \in Procs : Stage(q)'
  BY <1>2, <1>4 DEF MemInv, Stage
<1>6. IdentityTypeOK'
  BY DEF MemInv, IdentityTypeOK, Shapes, Memory, Points, Made, Fresh, Stage, Reading, KeyFile,
     Material, Publish, Moves, Learns, Keeps, limits, SignedCard
<1> QED  BY <1>1, <1>3, <1>5, <1>6 DEF MemInv

LEMMA MemSetAlias ==
  ASSUME MemInv, NEW p \in Procs, SetAlias(p)
  PROVE  MemInv'
<1> USE IdentityAssumption DEF NoKey, Keys, Files, Materials
<1>1. Shapes'
  BY DEF MemInv, IdentityTypeOK, Shapes, Memory, Fresh, Stage, Reading, KeyFile, Material,
     SetAlias, Moves, Learns, Keeps, limits
<1>2. \A q \in Procs \ {p} : mem'[q] = mem[q] /\ pc'[q] = pc[q]
  BY DEF MemInv, IdentityTypeOK, Shapes, SetAlias, Moves, Learns, Keeps, limits
<1>3. Made'
  BY <1>2 DEF MemInv, IdentityTypeOK, Shapes, Memory, Made, Fresh, Stage, Reading, KeyFile,
     SetAlias, Moves, Learns, Keeps, limits
<1>4. Stage(p)'
  BY DEF MemInv, IdentityTypeOK, Shapes, Memory, Made, Fresh, Stage, Reading, KeyFile,
     SetAlias, Moves, Learns, Keeps, limits
<1>5. \A q \in Procs : Stage(q)'
  BY <1>2, <1>4 DEF MemInv, Stage
<1>6. IdentityTypeOK'
  BY DEF MemInv, IdentityTypeOK, Shapes, Memory, Points, Made, Fresh, Stage, Reading, KeyFile,
     Material, SetAlias, Moves, Learns, Keeps, limits
<1> QED  BY <1>1, <1>3, <1>5, <1>6 DEF MemInv

LEMMA MemQuit ==
  ASSUME MemInv, NEW p \in Procs, Quit(p)
  PROVE  MemInv'
<1> USE IdentityAssumption DEF NoKey, Keys, Files, Materials
<1>1. Shapes'
  BY DEF MemInv, IdentityTypeOK, Shapes, Memory, Fresh, Stage, Reading, KeyFile, Material,
     Quit, Moves, Learns, Keeps, limits
<1>2. \A q \in Procs \ {p} : mem'[q] = mem[q] /\ pc'[q] = pc[q]
  BY DEF MemInv, IdentityTypeOK, Shapes, Quit, Moves, Learns, Keeps, limits
<1>3. Made'
  BY <1>2 DEF MemInv, IdentityTypeOK, Shapes, Memory, Made, Fresh, Stage, Reading, KeyFile,
     Quit, Moves, Learns, Keeps, limits
<1>4. Stage(p)'
  BY DEF MemInv, IdentityTypeOK, Shapes, Memory, Made, Fresh, Stage, Reading, KeyFile, Quit,
     Moves, Learns, Keeps, limits
<1>5. \A q \in Procs : Stage(q)'
  BY <1>2, <1>4 DEF MemInv, Stage
<1>6. IdentityTypeOK'
  BY DEF MemInv, IdentityTypeOK, Shapes, Memory, Points, Made, Fresh, Stage, Reading, KeyFile,
     Material, Quit, Moves, Learns, Keeps, limits
<1> QED  BY <1>1, <1>3, <1>5, <1>6 DEF MemInv

LEMMA MemCrash ==
  ASSUME MemInv, NEW p \in Procs, Crash(p)
  PROVE  MemInv'
<1> USE IdentityAssumption DEF NoKey, Keys, Files, Materials
<1>1. Shapes'
  BY DEF MemInv, IdentityTypeOK, Shapes, Memory, Fresh, Stage, Reading, KeyFile, Material,
     Crash, Moves, Learns, Keeps, limits
<1>2. \A q \in Procs \ {p} : mem'[q] = mem[q] /\ pc'[q] = pc[q]
  BY DEF MemInv, IdentityTypeOK, Shapes, Crash, Moves, Learns, Keeps, limits
<1>3. Made'
  BY <1>2 DEF MemInv, IdentityTypeOK, Shapes, Memory, Made, Fresh, Stage, Reading, KeyFile,
     Crash, Moves, Learns, Keeps, limits
<1>4. Stage(p)'
  BY DEF MemInv, IdentityTypeOK, Shapes, Memory, Made, Fresh, Stage, Reading, KeyFile, Crash,
     Moves, Learns, Keeps, limits
<1>5. \A q \in Procs : Stage(q)'
  BY <1>2, <1>4 DEF MemInv, Stage
<1>6. IdentityTypeOK'
  BY DEF MemInv, IdentityTypeOK, Shapes, Memory, Points, Made, Fresh, Stage, Reading, KeyFile,
     Material, Crash, Moves, Learns, Keeps, limits
<1> QED  BY <1>1, <1>3, <1>5, <1>6 DEF MemInv

LEMMA MemGetMaterial ==
  ASSUME MemInv, NEW p \in Procs, NEW f \in Materials, GetMaterial(p, f)
  PROVE  MemInv'
<1> USE IdentityAssumption DEF NoKey, Keys, Files, Materials
<1>1. /\ pc[p] = <<f>> /\ \A q \in Procs \ {p} : pc'[q] = pc[q]
      /\ pc' \in [Procs -> Points]
      /\ disk[f] = Absent => pc'[p] = <<"open", f>> /\ mem' = mem
      /\ disk[f] # Absent => pc'[p] = AfterMaterial(p, f) /\ Learns(p, f, disk[f])
      /\ UNCHANGED <<disk, published, made, crashes, raced>>
  BY DEF MemInv, IdentityTypeOK, Points, GetMaterial, Moves, limits, AfterMaterial
<1>2. CASE disk[f] = Absent
  <2>1. Stage(p)'
    <3>1. Stage(p)
      BY DEF MemInv
    <3>2. CASE f = "salt"
      BY <1>1, <1>2, <3>1, <3>2 DEF Stage, Reading
    <3>3. CASE f = "secret"
      BY <1>1, <1>2, <3>1, <3>3 DEF Stage, Reading
    <3> QED  BY <3>2, <3>3
  <2> QED  BY <1>1, <1>2, <2>1 DEF MemInv, Shapes, Made, IdentityTypeOK, Stage
<1>3. CASE disk[f] # Absent
  <2>1. mem' \in [Procs -> Memory]
    BY <1>1, <1>3 DEF MemInv, IdentityTypeOK, Shapes, Memory, Learns
  <2>2. /\ \A q \in Procs \ {p} : mem'[q] = mem[q]
        /\ mem'[p].salt = IF f = "salt" THEN disk[f] ELSE mem[p].salt
        /\ mem'[p].secret = IF f = "secret" THEN disk[f] ELSE mem[p].secret
        /\ mem'[p].file = mem[p].file /\ mem'[p].key = mem[p].key /\ mem'[p].id = mem[p].id
    BY <1>1, <1>3, Learned DEF MemInv
  <2>3. disk[f] \in Material
    BY <1>3 DEF MemInv, IdentityTypeOK
  <2>4. Stage(p)'
    <3>1. CASE f = "salt"
      BY <1>1, <1>3, <2>2, <2>3, <3>1 DEF MemInv, Stage, Reading, AfterMaterial
    <3>2. CASE f = "secret"
      <4>1. Stage(p) /\ pc[p] = <<"secret">>
        BY <1>1, <3>2 DEF MemInv
      <4>2. pc'[p] = IF mem[p].file = Absent THEN <<"open", "key">> ELSE <<"decrypt">>
        BY <1>1, <1>3, <3>2 DEF AfterMaterial
      <4>3. /\ mem[p].salt \in Material
            /\ mem[p].file = Absent => NoKey \notin {mem[p].key, mem[p].id}
        BY <4>1 DEF Stage, Reading
      <4>4. CASE mem[p].file = Absent
        BY <2>2, <2>3, <3>2, <4>2, <4>3, <4>4 DEF Stage, Reading
      <4>5. CASE mem[p].file # Absent
        BY <2>2, <2>3, <3>2, <4>2, <4>3, <4>5 DEF Stage, Reading
      <4> QED  BY <4>4, <4>5
    <3> QED  BY <3>1, <3>2
  <2>5. \A q \in Procs : Stage(q)'
    BY <1>1, <2>2, <2>4 DEF MemInv, Stage
  <2>6. Made' /\ Shapes'
    BY <1>1, <2>1, <2>2 DEF MemInv, Made, Shapes
  <2>7. pc'[p] \notin {<<"boot">>, <<"up">>}
    BY <1>1, <1>3 DEF AfterMaterial
  <2>8. IdentityTypeOK'
    BY <1>1, <2>1, <2>2, <2>3, <2>7 DEF MemInv, IdentityTypeOK
  <2> QED  BY <2>5, <2>6, <2>8 DEF MemInv
<1> QED  BY <1>2, <1>3

\* A file that is filled has its content.
LEMMA Filled ==
  ASSUME MemInv, NEW p \in Procs, NEW f \in Files, Fill(p, f)
  PROVE  /\ pc[p] = <<"fill", f>> /\ pc'[p] = AfterFill(p, f)
         /\ \A q \in Procs \ {p} : pc'[q] = pc[q] /\ mem'[q] = mem[q]
         /\ pc' \in [Procs -> Points] /\ mem' \in [Procs -> Memory]
         /\ disk' = [g \in Files |-> IF g = f THEN Content(p, f) ELSE disk[g]]
         /\ UNCHANGED <<published, made, crashes, raced>>
<1> USE IdentityAssumption DEF NoKey, Keys, Files, Materials
<1>1. /\ pc[p] = <<"fill", f>> /\ pc'[p] = AfterFill(p, f)
      /\ \A q \in Procs \ {p} : pc'[q] = pc[q]
      /\ pc' \in [Procs -> Points]
  BY DEF MemInv, IdentityTypeOK, Points, Fill, Moves, AfterFill, AfterMaterial
<1>2. disk' = [g \in Files |-> IF g = f THEN Content(p, f) ELSE disk[g]]
  BY DEF MemInv, Shapes, Fill
<1>3. (\A q \in Procs \ {p} : mem'[q] = mem[q]) /\ mem' \in [Procs -> Memory]
  <2>1. CASE f \in Materials
    <3>1. Learns(p, f, p)
      BY <2>1 DEF Fill
    <3> QED  BY <2>1, <3>1 DEF MemInv, Shapes, Memory, Learns, Material
  <2>2. CASE f = "key"
    <3>1. Keeps(p, mem[p].key)
      BY <2>2 DEF Fill
    <3> QED  BY <3>1 DEF MemInv, Shapes, Memory, Keeps, Fresh
  <2>3. CASE f = "meta"
    <3>1. mem' = mem
      BY <2>3 DEF Fill
    <3> QED  BY <3>1 DEF MemInv, Shapes
  <2> QED  BY <2>1, <2>2, <2>3
<1> QED  BY <1>1, <1>2, <1>3 DEF Fill, limits

\* What is written is what the type says.
LEMMA MemFill ==
  ASSUME MemInv, NEW p \in Procs, NEW f \in Files, Fill(p, f)
  PROVE  MemInv'
<1> USE IdentityAssumption DEF NoKey, Keys, Files, Materials
<1>1. /\ pc[p] = <<"fill", f>> /\ pc'[p] = AfterFill(p, f)
      /\ \A q \in Procs \ {p} : pc'[q] = pc[q] /\ mem'[q] = mem[q]
      /\ pc' \in [Procs -> Points] /\ mem' \in [Procs -> Memory]
      /\ disk' = [g \in Files |-> IF g = f THEN Content(p, f) ELSE disk[g]]
      /\ UNCHANGED <<published, made, crashes, raced>>
  BY Filled DEF Files, Materials
<1>2. SUFFICES /\ disk'.salt \in Material \cup {Absent} /\ disk'.secret \in Material \cup {Absent}
               /\ disk'.key \in KeyFile \cup {Absent, Empty} /\ disk'.meta \in Keys \cup {Absent, Empty}
               /\ disk'.key \in KeyFile => disk'.key.key <= made
               /\ disk'.meta \in Keys => disk'.meta <= made
               /\ mem'[p].key \in 0 .. made /\ mem'[p].id \in 0 .. made
               /\ mem'[p].file \in KeyFile => mem'[p].file.key <= made
               /\ Stage(p)'
               /\ pc'[p] \in {<<"boot">>, <<"up">>} => NoKey \notin {mem'[p].key, mem'[p].id}
  <2>1. \A q \in Procs : Stage(q)'
    BY <1>1, <1>2 DEF MemInv, Stage
  <2>2. Made' /\ Shapes'
    BY <1>1, <1>2 DEF MemInv, Made, Shapes
  <2>3. IdentityTypeOK'
    BY <1>1, <1>2 DEF MemInv, IdentityTypeOK, Shapes, Memory
  <2> QED  BY <2>1, <2>2, <2>3 DEF MemInv
<1>3. CASE f \in Materials
  <2>1. Learns(p, f, p) /\ Content(p, f) = p /\ pc'[p] = AfterMaterial(p, f)
    BY <1>1, <1>3 DEF Fill, Content, AfterFill
  <2>2. /\ mem'[p].salt = IF f = "salt" THEN p ELSE mem[p].salt
        /\ mem'[p].secret = IF f = "secret" THEN p ELSE mem[p].secret
        /\ mem'[p].file = mem[p].file /\ mem'[p].key = mem[p].key /\ mem'[p].id = mem[p].id
    BY <1>3, <2>1, Learned DEF MemInv
  <2>3. Stage(p)'
    <3>1. CASE f = "salt"
      BY <1>1, <2>1, <2>2, <3>1 DEF MemInv, Stage, Reading, AfterMaterial, Material
    <3>2. CASE f = "secret"
      BY <1>1, <2>1, <2>2, <3>2 DEF MemInv, Stage, Reading, AfterMaterial, Material
    <3> QED  BY <1>3, <3>1, <3>2
  <2>4. pc'[p] \notin {<<"boot">>, <<"up">>}
    BY <2>1 DEF AfterMaterial
  <2> QED  BY <1>1, <1>3, <2>1, <2>2, <2>3, <2>4 DEF MemInv, IdentityTypeOK, Made, Material
<1>4. CASE f = "key"
  <2>1. mem'[p] = [Fresh EXCEPT !.key = mem[p].key, !.id = mem[p].key] /\ pc'[p] = <<"open", "meta">>
    BY <1>1, <1>4 DEF MemInv, Shapes, Fill, Keeps, AfterFill
  <2>2. mem'[p].file = Absent /\ mem'[p].key = mem[p].key /\ mem'[p].id = mem[p].key
    BY <2>1 DEF Fresh
  <2>3. mem[p].key \in Keys /\ mem[p].salt \in Material /\ mem[p].secret \in Material /\ mem[p].key <= made
    <3>1. Stage(p) /\ pc[p] = <<"fill", "key">>
      BY <1>1, <1>4 DEF MemInv
    <3>2. mem[p].file = Absent /\ mem[p].salt \in Material /\ mem[p].secret \in Material
      BY <3>1 DEF Stage, Reading
    <3>3. mem[p].key # NoKey
      BY <3>1, <3>2 DEF Stage
    <3>4. mem[p].key \in 0 .. made /\ made \in 0 .. MaxKeys
      BY DEF MemInv, IdentityTypeOK
    <3> QED  BY <3>2, <3>3, <3>4
  <2>4. disk'.key \in KeyFile /\ disk'.key.key = mem[p].key
    BY <1>1, <1>4, <2>3 DEF Content, KeyFile
  <2>5. Stage(p)'
    BY <2>1, <2>2, <2>3 DEF Stage, Reading
  <2> QED  BY <1>1, <1>4, <2>1, <2>2, <2>3, <2>4, <2>5 DEF MemInv, IdentityTypeOK, Made
<1>5. CASE f = "meta"
  <2>1. mem' = mem /\ pc'[p] = <<"boot">> /\ disk'.meta = mem[p].id
    BY <1>1, <1>5 DEF Fill, AfterFill, Content
  <2>2. mem[p].file = Absent /\ mem[p].id \in 1 .. made /\ mem[p].key \in 1 .. made
    BY <1>1, <1>5 DEF MemInv, IdentityTypeOK, Stage, Reading
  <2>3. Stage(p)'
    BY <2>1, <2>2 DEF Stage, Reading
  <2> QED  BY <1>1, <1>5, <2>1, <2>2, <2>3 DEF MemInv, IdentityTypeOK, Made
<1> QED  BY <1>3, <1>4, <1>5

\* Decrypting the key file that was read gives a key that was made.
LEMMA MemDecrypt ==
  ASSUME MemInv, NEW p \in Procs, Decrypt(p)
  PROVE  MemInv'
<1> USE IdentityAssumption DEF NoKey, Keys, Files, Materials
<1> DEFINE done == Decrypts(mem[p].file, mem[p].salt, mem[p].secret)
           k == IF done THEN mem[p].file.key ELSE NoKey
<1>1. /\ mem' = [mem EXCEPT ![p] = [salt |-> Absent, secret |-> Absent, file |-> Absent, key |-> k, id |-> k]]
      /\ pc' = [pc EXCEPT ![p] = IF done THEN <<"meta">> ELSE <<"idle">>]
      /\ UNCHANGED <<disk, published, made, crashes, raced>>
  <2>1. CASE done
    BY <2>1 DEF Decrypt, Keeps, Moves, limits, Fresh
  <2>2. CASE ~done
    BY <2>2 DEF Decrypt, Moves, limits, Fresh
  <2> QED  BY <2>1, <2>2
<1>2. mem[p].file \in KeyFile \cup {Absent, Empty}
  BY DEF MemInv, IdentityTypeOK
<1>3. done => k \in 1 .. made
  BY <1>2 DEF MemInv, Made, IdentityTypeOK, Decrypts, KeyFile
<1>4. k \in 0 .. made /\ (done => k # NoKey) /\ made \in Nat
  BY <1>3 DEF MemInv, IdentityTypeOK
<1>5. mem'[p] = [salt |-> Absent, secret |-> Absent, file |-> Absent, key |-> k, id |-> k]
  BY <1>1 DEF MemInv, Shapes, Fresh
<1>6. /\ pc'[p] = IF done THEN <<"meta">> ELSE <<"idle">>
      /\ \A q \in Procs \ {p} : pc'[q] = pc[q] /\ mem'[q] = mem[q]
      /\ pc' \in [Procs -> Points]
  BY <1>1 DEF MemInv, Shapes, IdentityTypeOK, Points
<1> HIDE DEF done
<1>7. Stage(p)'
  <2>1. ~done => mem'[p] = Fresh
    BY <1>5 DEF Fresh
  <2> QED  BY <1>4, <1>5, <1>6, <2>1 DEF Stage, Reading
<1> HIDE DEF k
<1>8. \A q \in Procs : Stage(q)'
  BY <1>6, <1>7 DEF MemInv, Stage
<1>9. mem' \in [Procs -> Memory]
  <2>1. mem'[p] \in Memory
    BY <1>4, <1>5 DEF Memory
  <2> QED  BY <1>1, <1>5, <2>1 DEF MemInv, Shapes
<1>10. Shapes' /\ Made'
  <2>1. Shapes'
    BY <1>1, <1>9 DEF MemInv, Shapes
  <2>2. mem'[p].file \notin KeyFile
    BY <1>5
  <2> QED  BY <1>1, <1>6, <2>1, <2>2 DEF MemInv, Made
<1>11. IdentityTypeOK'
  <2>1. pc'[p] \notin {<<"boot">>, <<"up">>}
    BY <1>6
  <2>2. /\ mem'[p].salt = Absent /\ mem'[p].secret = Absent /\ mem'[p].file = Absent
        /\ mem'[p].key \in 0 .. made /\ mem'[p].id \in 0 .. made
    BY <1>4, <1>5
  <2> QED  BY <1>1, <1>6, <2>1, <2>2 DEF MemInv, IdentityTypeOK
<1> QED  BY <1>8, <1>10, <1>11 DEF MemInv

-----------------------------------------------------------------------------
(* While no two processes create an identity at once, the key that is there  *)
(* can be decrypted, or is about to be written.                              *)

LEMMA DiskKeyIs ==
  ASSUME MemInv, KeyInv, ~raced
  PROVE  /\ disk.key \in {Absent, Empty} => DiskKey = NoKey
         /\ disk.key \notin {Absent, Empty} => DiskKey = disk.key.key /\ DiskKey # NoKey
         /\ DiskKey = NoKey => /\ disk.key \in {Absent, Empty} /\ disk.meta \in {Absent, Empty}
                               /\ published = {} /\ \A q \in Procs : ~Holding(q)
<1> USE IdentityAssumption DEF NoKey, Keys
<1>1. disk.key \in {Absent, Empty} => DiskKey = NoKey
  BY DEF DiskKey, Decrypts
<1>2. disk.key \notin {Absent, Empty} => DiskKey = disk.key.key /\ DiskKey # NoKey
  <2>1. disk.key \in KeyFile \cup {Absent, Empty}
    BY DEF MemInv, IdentityTypeOK
  <2> QED  BY <2>1 DEF KeyInv, DiskKey, KeyFile
<1>3. disk.meta \in Keys \cup {Absent, Empty}
  BY DEF MemInv, IdentityTypeOK
<1> QED  BY <1>1, <1>2, <1>3 DEF KeyInv, Alone

\* A step of p that writes nothing.
LEMMA KeyLocal ==
  ASSUME MemInv, KeyInv, ~raced, NEW p \in Procs,
         disk' = disk, published' = published, raced' = raced,
         \A q \in Procs \ {p} : pc'[q] = pc[q] /\ mem'[q] = mem[q],
         Alone(p)', Materialised(p)',
         \A q \in Procs \ {p} : /\ Beginning(q) => Idle(p)'
                                /\ Writing(q) => Idle(p)' \/ Loading(p)'
  PROVE  KeyInv'
<1>1. DiskKey' = DiskKey
  BY DEF DiskKey
<1>2. ASSUME NEW q \in Procs \ {p}  PROVE Alone(q)' /\ Materialised(q)'
  <2>1. /\ Beginning(q)' = Beginning(q) /\ Writing(q)' = Writing(q) /\ Loading(q)' = Loading(q)
        /\ Holding(q)' = Holding(q) /\ Idle(q)' = Idle(q)
    BY <1>2 DEF Beginning, Writing, Loading, Holding, Idle
  <2>2. \A r \in Procs \ {p} : Idle(r)' = Idle(r) /\ Loading(r)' = Loading(r)
    BY DEF Idle, Loading
  <2>3. Alone(q) /\ Materialised(q)
    BY <1>2 DEF KeyInv
  <2>4. Materialised(q)'
    BY <1>2, <2>1, <2>3 DEF Materialised
  <2>5. Alone(q)'
    BY <1>1, <1>2, <2>1, <2>2, <2>3 DEF Alone
  <2> QED  BY <2>4, <2>5
<1>3. \A q \in Procs : Alone(q)' /\ Materialised(q)'
  BY <1>2
<1> QED  BY <1>1, <1>3 DEF KeyInv, Decrypts

\* Whoever is beyond its beginning excludes those who begin.
LEMMA Excluded ==
  ASSUME KeyInv, ~raced, NEW p \in Procs, Holding(p)
  PROVE  \A q \in Procs \ {p} : ~Beginning(q) /\ ~Writing(q)
<1>1. ~Idle(p) /\ ~Loading(p)
  BY DEF Holding, Idle, Loading
<1> QED  BY <1>1 DEF KeyInv, Alone

LEMMA KeyLoad ==
  ASSUME MemInv, MemInv', KeyInv, NEW p \in Procs, Load(p)
  PROVE  KeyInv'
<1> USE IdentityAssumption
<1>1. SUFFICES ASSUME ~raced  PROVE KeyInv'
  BY DEF KeyInv, Load, limits
<1>2. /\ Idle(p) /\ disk.key # Absent /\ mem[p] = Fresh
      /\ pc'[p] = <<"salt">> /\ \A q \in Procs \ {p} : pc'[q] = pc[q] /\ mem'[q] = mem[q]
      /\ mem'[p].file = disk.key /\ mem'[p].key = NoKey
      /\ disk' = disk /\ published' = published /\ raced' = raced
  BY DEF MemInv, IdentityTypeOK, Shapes, Memory, Stage, Fresh, Load, Moves, Learns, limits, Idle
<1>3. Loading(p)' /\ ~Beginning(p)' /\ ~Holding(p)' /\ ~Writing(p)'
  BY <1>2 DEF Loading, Beginning, Holding, Writing
<1>4. Alone(p)' /\ Materialised(p)'
  BY <1>1, <1>2, <1>3 DEF KeyInv, Alone, Materialised
<1>5. \A q \in Procs \ {p} : ~Beginning(q)
  BY <1>1, <1>2 DEF KeyInv, Alone
<1> QED  BY <1>1, <1>2, <1>3, <1>4, <1>5, KeyLocal

LEMMA KeyCreate ==
  ASSUME MemInv, MemInv', KeyInv, NEW p \in Procs, Create(p)
  PROVE  KeyInv'
<1> USE IdentityAssumption
<1>1. SUFFICES ASSUME ~raced'  PROVE KeyInv'
  BY DEF KeyInv
<1>2. /\ ~raced /\ raced' = raced /\ \A q \in Procs : Idle(q)
      /\ disk.key = Absent /\ mem[p] = Fresh
      /\ pc'[p] = <<"salt">> /\ \A q \in Procs \ {p} : pc'[q] = pc[q] /\ mem'[q] = mem[q]
      /\ mem'[p].file = Absent
      /\ disk' = disk /\ published' = published
  BY <1>1 DEF MemInv, IdentityTypeOK, Shapes, Memory, Stage, Fresh, Create, Moves, Idle
<1>3. ~Loading(p)' /\ Beginning(p)' /\ ~Holding(p)' /\ ~Writing(p)' /\ \A q \in Procs \ {p} : Idle(q)'
  BY <1>2 DEF Loading, Beginning, Holding, Writing, Idle
<1>4. Alone(p)' /\ Materialised(p)'
  BY <1>2, <1>3 DEF Alone, Materialised
<1>5. \A q \in Procs \ {p} : ~Beginning(q) /\ ~Writing(q)
  BY <1>2 DEF Beginning, Writing, Idle
<1> QED  BY <1>2, <1>4, <1>5, KeyLocal

LEMMA KeyGetMaterial ==
  ASSUME MemInv, MemInv', KeyInv, NEW p \in Procs, NEW f \in Materials, GetMaterial(p, f)
  PROVE  KeyInv'
<1> USE IdentityAssumption DEF Materials
<1>1. SUFFICES ASSUME ~raced  PROVE KeyInv'
  BY DEF KeyInv, GetMaterial, limits
<1>2. /\ pc[p] = <<f>> /\ \A q \in Procs \ {p} : pc'[q] = pc[q] /\ mem'[q] = mem[q]
      /\ disk[f] = Absent => pc'[p] = <<"open", f>> /\ mem' = mem
      /\ disk[f] # Absent => pc'[p] = AfterMaterial(p, f) /\ Learns(p, f, disk[f])
      /\ disk' = disk /\ published' = published /\ raced' = raced
  BY DEF MemInv, IdentityTypeOK, Shapes, GetMaterial, Moves, Learns, limits
<1>3. disk[f] # Absent =>
        /\ mem'[p].salt = IF f = "salt" THEN disk[f] ELSE mem[p].salt
        /\ mem'[p].secret = IF f = "secret" THEN disk[f] ELSE mem[p].secret
        /\ mem'[p].file = mem[p].file /\ mem'[p].key = mem[p].key
  BY <1>2, Learned DEF MemInv
<1>4. Alone(p) /\ Materialised(p) /\ ~Holding(p) /\ ~Writing(p) /\ ~Idle(p)
  BY <1>1, <1>2 DEF KeyInv, Holding, Writing, Idle
<1>5. CASE Loading(p)
  <2>1. disk[f] # Absent /\ mem[p].file # Absent /\ ~Beginning(p)
    BY <1>4, <1>5 DEF Alone, Loading, Beginning
  <2>2. pc'[p] \in {<<"secret">>, <<"decrypt">>} /\ mem'[p].file = mem[p].file /\ mem'[p].key = mem[p].key
    BY <1>2, <1>3, <2>1 DEF AfterMaterial
  <2>3. Loading(p)' /\ ~Beginning(p)' /\ ~Holding(p)' /\ ~Writing(p)'
    BY <2>1, <2>2 DEF Loading, Beginning, Holding, Writing
  <2>4. Alone(p)' /\ Materialised(p)'
    BY <1>2, <1>4, <1>5, <2>2, <2>3 DEF Alone, Materialised
  <2>5. \A q \in Procs \ {p} : ~Beginning(q)
    BY <1>1, <1>4 DEF KeyInv, Alone
  <2> QED  BY <1>1, <1>2, <2>3, <2>4, <2>5, KeyLocal
<1>6. CASE Beginning(p)
  <2>1. disk.key = Absent /\ mem[p].file = Absent /\ \A q \in Procs \ {p} : Idle(q)
    BY <1>4, <1>6 DEF Alone, Beginning
  <2>2. mem'[p].file = Absent
    BY <1>2, <1>3, <2>1
  <2>3. /\ Beginning(p)' /\ ~Loading(p)' /\ ~Holding(p)' /\ ~Writing(p)'
        /\ \A q \in Procs \ {p} : Idle(q)'
    BY <1>2, <2>1, <2>2 DEF AfterMaterial, Beginning, Loading, Holding, Writing, Idle
  <2>4. Alone(p)'
    BY <1>2, <2>1, <2>3 DEF Alone
  <2>5. Materialised(p)'
    <3>1. CASE f = "salt"
      <4>1. CASE disk[f] = Absent
        BY <1>2, <3>1, <4>1 DEF Materialised
      <4>2. CASE disk[f] # Absent
        BY <1>2, <1>3, <3>1, <4>2 DEF Materialised, AfterMaterial
      <4> QED  BY <4>1, <4>2
    <3>2. CASE f = "secret"
      <4>1. mem[p].salt = disk.salt
        BY <1>2, <1>4, <1>6, <3>2 DEF Materialised
      <4>2. CASE disk[f] = Absent
        BY <1>2, <3>2, <4>1, <4>2 DEF Materialised
      <4>3. CASE disk[f] # Absent
        BY <1>2, <1>3, <2>1, <3>2, <4>1, <4>3 DEF Materialised, AfterMaterial
      <4> QED  BY <4>2, <4>3
    <3> QED  BY <3>1, <3>2
  <2>6. \A q \in Procs \ {p} : ~Beginning(q) /\ ~Writing(q)
    BY <2>1 DEF Beginning, Writing, Idle
  <2> QED  BY <1>1, <1>2, <2>4, <2>5, <2>6, KeyLocal
<1> QED  BY <1>4, <1>5, <1>6 DEF Alone

LEMMA KeyDecrypt ==
  ASSUME MemInv, MemInv', KeyInv, NEW p \in Procs, Decrypt(p)
  PROVE  KeyInv'
<1> USE IdentityAssumption
<1>1. SUFFICES ASSUME ~raced  PROVE KeyInv'
  BY DEF KeyInv, Decrypt, limits
<1> DEFINE done == Decrypts(mem[p].file, mem[p].salt, mem[p].secret)
<1>2. /\ pc[p] = <<"decrypt">> /\ \A q \in Procs \ {p} : pc'[q] = pc[q] /\ mem'[q] = mem[q]
      /\ done => pc'[p] = <<"meta">> /\ mem'[p].key = mem[p].file.key /\ mem'[p].id = mem[p].file.key
      /\ ~done => pc'[p] = <<"idle">>
      /\ disk' = disk /\ published' = published /\ raced' = raced
  <2>1. CASE done
    <3>1. mem' = [mem EXCEPT ![p] = [salt |-> Absent, secret |-> Absent, file |-> Absent,
                                     key |-> mem[p].file.key, id |-> mem[p].file.key]]
      BY <2>1 DEF Decrypt, Keeps, Fresh
    <3>2. /\ pc[p] = <<"decrypt">> /\ pc' = [pc EXCEPT ![p] = <<"meta">>]
          /\ UNCHANGED <<disk, published, limits>>
      BY <2>1 DEF Decrypt, Moves
    <3> HIDE DEF done
    <3> QED  BY <2>1, <3>1, <3>2 DEF MemInv, IdentityTypeOK, Shapes, limits
  <2>2. CASE ~done
    <3> HIDE DEF done
    <3>1. /\ pc[p] = <<"decrypt">> /\ mem' = [mem EXCEPT ![p] = Fresh] /\ pc' = [pc EXCEPT ![p] = <<"idle">>]
          /\ UNCHANGED <<disk, published, limits>>
      BY <2>2 DEF done, Decrypt, Moves
    <3> QED  BY <2>2, <3>1 DEF MemInv, IdentityTypeOK, Shapes, limits
  <2> QED  BY <2>1, <2>2
<1>3. Loading(p) /\ Alone(p)
  BY <1>1, <1>2 DEF KeyInv, Alone, Idle, Beginning, Writing, Holding, Loading, Materials
<1>4. CASE done
  <2>1. mem[p].file = disk.key /\ disk.key \notin {Absent, Empty}
    BY <1>3, <1>4 DEF Alone, Decrypts
  <2>2. mem'[p].key = DiskKey /\ mem'[p].id = DiskKey /\ DiskKey # NoKey /\ DiskKey' = DiskKey
    BY <1>1, <1>2, <1>4, <2>1, DiskKeyIs DEF DiskKey
  <2>3. Holding(p)' /\ ~Beginning(p)' /\ ~Loading(p)' /\ ~Writing(p)'
    BY <1>2, <1>4 DEF Holding, Beginning, Loading, Writing, Materials
  <2>4. Alone(p)' /\ Materialised(p)'
    BY <1>2, <1>4, <2>2, <2>3 DEF Alone, Materialised
  <2>5. \A q \in Procs \ {p} : ~Beginning(q) /\ ~Writing(q)
    BY <1>1, <2>1 DEF KeyInv, Alone
  <2> QED  BY <1>1, <1>2, <2>4, <2>5, KeyLocal
<1>5. CASE ~done
  <2>1. Idle(p)' /\ ~Holding(p)' /\ ~Beginning(p)' /\ ~Loading(p)' /\ ~Writing(p)'
    BY <1>2, <1>5 DEF Idle, Holding, Beginning, Loading, Writing, Materials
  <2>2. Alone(p)' /\ Materialised(p)'
    BY <1>2, <1>5, <2>1 DEF Alone, Materialised
  <2> QED  BY <1>1, <1>2, <2>1, <2>2, KeyLocal
<1> QED  BY <1>4, <1>5

\* Steps of a process that has its key, and the end of a process anywhere.
LEMMA KeyHolder ==
  ASSUME MemInv, MemInv', KeyInv, NEW p \in Procs, ReadMeta(p) \/ SetAlias(p)
  PROVE  KeyInv'
<1> USE IdentityAssumption DEF NoKey, Keys
<1>1. SUFFICES ASSUME ~raced  PROVE KeyInv'
  BY DEF KeyInv, ReadMeta, SetAlias, limits
<1>2. /\ pc[p] \in {<<"meta">>, <<"up">>} /\ pc'[p] \in {<<"boot">>, <<"open", "meta">>}
      /\ \A q \in Procs \ {p} : pc'[q] = pc[q] /\ mem'[q] = mem[q]
      /\ disk' = disk /\ published' = published /\ raced' = raced
      /\ mem'[p].key = mem[p].key
      /\ mem'[p].id \in {mem[p].id, mem[p].key} \cup ({disk.meta} \ {Absent, Empty})
  <2>1. CASE ReadMeta(p)
    <3> DEFINE v == IF disk.meta \in {Absent, Empty} THEN mem[p].key ELSE disk.meta
    <3>1. Learns(p, "id", v)
      BY <2>1 DEF ReadMeta
    <3>2. (\A q \in Procs \ {p} : mem'[q] = mem[q]) /\ mem'[p].key = mem[p].key /\ mem'[p].id = v
      BY <3>1, Learned DEF MemInv
    <3> QED  BY <2>1, <3>2 DEF MemInv, IdentityTypeOK, ReadMeta, Moves, limits
  <2>2. CASE SetAlias(p)
    BY <2>2 DEF MemInv, IdentityTypeOK, SetAlias, Moves, limits
  <2> QED  BY <2>1, <2>2
<1>3. Holding(p) /\ Alone(p) /\ Holding(p)' /\ ~Beginning(p)' /\ ~Loading(p)' /\ ~Writing(p)' /\ ~Idle(p)'
  BY <1>1, <1>2 DEF KeyInv, Holding, Beginning, Loading, Writing, Idle, Materials
<1>4. DiskKey' = DiskKey
  BY <1>2 DEF DiskKey
<1>5. mem'[p].key = DiskKey /\ mem'[p].id = DiskKey /\ DiskKey # NoKey
  <2>1. disk.meta \in Keys \cup {Absent, Empty}
    BY DEF MemInv, IdentityTypeOK
  <2> QED  BY <1>1, <1>2, <1>3, <2>1 DEF KeyInv, Alone
<1>6. Alone(p)' /\ Materialised(p)'
  BY <1>2, <1>3, <1>4, <1>5 DEF Alone, Materialised
<1>7. \A q \in Procs \ {p} : ~Beginning(q) /\ ~Writing(q)
  BY <1>1, <1>3, Excluded
<1> QED  BY <1>1, <1>2, <1>6, <1>7, KeyLocal

LEMMA KeyGone ==
  ASSUME MemInv, MemInv', KeyInv, NEW p \in Procs, Quit(p) \/ Crash(p)
  PROVE  KeyInv'
<1> USE IdentityAssumption
<1>1. SUFFICES ASSUME ~raced  PROVE KeyInv'
  BY DEF KeyInv, Quit, Crash, limits
<1>2. /\ pc'[p] = <<"idle">> /\ \A q \in Procs \ {p} : pc'[q] = pc[q] /\ mem'[q] = mem[q]
      /\ disk' = disk /\ published' = published /\ raced' = raced
  BY DEF MemInv, IdentityTypeOK, Shapes, Quit, Crash, Moves, limits
<1>3. Idle(p)' /\ ~Holding(p)' /\ ~Beginning(p)' /\ ~Loading(p)' /\ ~Writing(p)'
  BY <1>2 DEF Idle, Holding, Beginning, Loading, Writing, Materials
<1>4. Alone(p)' /\ Materialised(p)'
  BY <1>2, <1>3 DEF Alone, Materialised
<1> QED  BY <1>1, <1>2, <1>3, <1>4, KeyLocal

LEMMA KeyPublish ==
  ASSUME MemInv, MemInv', KeyInv, NEW p \in Procs, Publish(p)
  PROVE  KeyInv'
<1>1. SUFFICES ASSUME ~raced  PROVE KeyInv'
  BY DEF KeyInv, Publish, limits
<1>2. /\ pc[p] = <<"boot">> /\ pc'[p] = <<"up">> /\ \A q \in Procs \ {p} : pc'[q] = pc[q]
      /\ disk' = disk /\ mem' = mem /\ published' = published \cup {SignedCard(p)}
  BY DEF MemInv, IdentityTypeOK, Publish, Moves, limits
<1>3. Holding(p) /\ Holding(p)' /\ DiskKey' = DiskKey
  BY <1>2 DEF Holding, DiskKey
<1>4. mem[p].key = DiskKey /\ mem[p].id = DiskKey /\ DiskKey # NoKey
  BY <1>1, <1>3 DEF KeyInv, Alone
<1>5. ASSUME NEW q \in Procs  PROVE Alone(q)' /\ Materialised(q)'
  <2>1. /\ Beginning(q)' = Beginning(q) /\ Writing(q)' = Writing(q) /\ Loading(q)' = Loading(q)
        /\ Holding(q)' = Holding(q) /\ Idle(q)' = Idle(q)
    BY <1>2 DEF Beginning, Writing, Loading, Holding, Idle, Materials
  <2>2. \A r \in Procs : Idle(r)' = Idle(r) /\ Loading(r)' = Loading(r)
    BY <1>2 DEF Idle, Loading
  <2>3. Alone(q) /\ Materialised(q)
    BY <1>1 DEF KeyInv
  <2>4. Alone(q)'
    BY <1>2, <1>3, <2>1, <2>2, <2>3 DEF Alone
  <2>5. Materialised(q)'
    BY <1>2, <2>1, <2>3 DEF Materialised
  <2> QED  BY <2>4, <2>5
<1>6. \A x \in published' : x.id = DiskKey' /\ x.key = DiskKey' /\ DiskKey' # NoKey
  BY <1>1, <1>2, <1>3, <1>4 DEF KeyInv, SignedCard
<1> QED  BY <1>1, <1>2, <1>3, <1>5, <1>6 DEF KeyInv, Decrypts

\* The files that a process makes and fills.
LEMMA KeyTruncate ==
  ASSUME MemInv, MemInv', KeyInv, NEW p \in Procs, NEW f \in Files, Truncate(p, f)
  PROVE  KeyInv'
<1> USE IdentityAssumption DEF Files, Materials
<1>1. SUFFICES ASSUME ~raced  PROVE KeyInv'
  BY DEF KeyInv, Truncate, limits
<1>2. /\ pc[p] = <<"open", f>> /\ pc'[p] = <<"fill", f>> /\ \A q \in Procs \ {p} : pc'[q] = pc[q]
      /\ disk' = [g \in Files |-> IF g = f THEN Empty ELSE disk[g]]
      /\ mem' = mem /\ published' = published
  BY DEF MemInv, Shapes, IdentityTypeOK, Truncate, Moves, limits
<1>3. Alone(p) /\ Materialised(p) /\ Stage(p)
  BY <1>1 DEF KeyInv, MemInv
<1>4. CASE f # "meta"
  <2>1. Beginning(p)
    BY <1>2, <1>3, <1>4 DEF Alone, Idle, Writing, Loading, Holding
  <2>2. disk.key = Absent /\ \A q \in Procs \ {p} : Idle(q)
    BY <1>3, <2>1 DEF Alone
  <2>3. disk.meta \in {Absent, Empty} /\ published = {}
    BY <1>1, <2>2, DiskKeyIs
  <2>4. \A q \in Procs \ {p} : Idle(q)' /\ ~Beginning(q)' /\ ~Writing(q)' /\ ~Loading(q)' /\ ~Holding(q)'
    BY <1>2, <2>2 DEF Idle, Beginning, Writing, Loading, Holding
  <2>5. \A q \in Procs \ {p} : Alone(q)' /\ Materialised(q)'
    BY <1>2, <2>2, <2>4 DEF Alone, Materialised, Idle
  <2>6. disk'.key \in {Absent, Empty} /\ disk'.meta = disk.meta
    BY <1>2, <1>4, <2>2
  <2>7. Alone(p)' /\ Materialised(p)' /\ (disk'.key # Absent => Absent \notin {disk'.salt, disk'.secret})
    <3>1. CASE f = "key"
      <4>1. mem[p].salt = disk.salt /\ mem[p].secret = disk.secret /\ mem[p].salt \in Material /\ mem[p].secret \in Material
        BY <1>2, <1>3, <3>1 DEF Materialised, Stage
      <4>2. Writing(p)' /\ ~Beginning(p)' /\ ~Loading(p)' /\ ~Holding(p)'
        BY <1>2, <3>1 DEF Writing, Beginning, Loading, Holding
      <4> QED  BY <1>2, <2>4, <3>1, <4>1, <4>2 DEF Alone, Materialised, Material
    <3>2. CASE f \in Materials
      <4>1. Beginning(p)' /\ ~Writing(p)' /\ ~Loading(p)' /\ ~Holding(p)'
        BY <1>2, <2>1, <3>2 DEF Writing, Beginning, Loading, Holding
      <4>2. Alone(p)' /\ disk'.key = Absent
        BY <1>2, <2>2, <2>4, <3>2, <4>1 DEF Alone
      <4>3. Materialised(p)'
        BY <1>2, <1>3, <2>1, <3>2 DEF Materialised
      <4> QED  BY <4>2, <4>3
    <3> QED  BY <1>4, <3>1, <3>2
  <2> QED  BY <1>2, <2>3, <2>5, <2>6, <2>7 DEF KeyInv
<1>5. CASE f = "meta"
  <2>1. Holding(p) /\ ~Beginning(p) /\ ~Loading(p) /\ ~Writing(p) /\ ~Idle(p)
    BY <1>2, <1>5 DEF Idle, Writing, Loading, Holding, Beginning
  <2>2. Holding(p)' /\ ~Beginning(p)' /\ ~Loading(p)' /\ ~Writing(p)' /\ ~Idle(p)'
    BY <1>2, <1>5 DEF Idle, Writing, Loading, Holding, Beginning
  <2>3. disk'.salt = disk.salt /\ disk'.secret = disk.secret /\ disk'.key = disk.key /\ disk'.meta = Empty /\ DiskKey' = DiskKey
    BY <1>2, <1>5 DEF DiskKey
  <2>4. ASSUME NEW q \in Procs  PROVE Alone(q)'
    <3>1. \A r \in Procs : /\ Beginning(r)' = Beginning(r) /\ Writing(r)' = Writing(r) /\ Loading(r)' = Loading(r)
                           /\ Holding(r)' = Holding(r) /\ Idle(r)' = Idle(r)
      BY <1>2, <2>1, <2>2 DEF Idle, Writing, Loading, Holding, Beginning
    <3>2. Alone(q)
      BY <1>1 DEF KeyInv
    <3> QED  BY <1>2, <2>3, <3>1, <3>2 DEF Alone
  <2>5. ASSUME NEW q \in Procs  PROVE Materialised(q)'
    <3>1. Materialised(q) /\ Beginning(q)' = Beginning(q)
      BY <1>1, <1>2, <2>1, <2>2 DEF KeyInv, Beginning
    <3>2. CASE q = p
      BY <1>2, <1>5, <2>2, <3>2 DEF Materialised
    <3>3. CASE q # p
      BY <1>2, <2>3, <3>1, <3>3 DEF Materialised
    <3> QED  BY <3>2, <3>3
  <2> QED  BY <1>1, <1>2, <2>3, <2>4, <2>5 DEF KeyInv, Decrypts
<1> QED  BY <1>4, <1>5

LEMMA KeyFill ==
  ASSUME MemInv, MemInv', KeyInv, NEW p \in Procs, NEW f \in Files, Fill(p, f)
  PROVE  KeyInv'
<1>1. SUFFICES ASSUME ~raced  PROVE KeyInv'
  BY DEF KeyInv, Fill, limits
<1>2. /\ pc[p] = <<"fill", f>> /\ pc'[p] = AfterFill(p, f)
      /\ \A q \in Procs \ {p} : pc'[q] = pc[q] /\ mem'[q] = mem[q]
      /\ disk' = [g \in Files |-> IF g = f THEN Content(p, f) ELSE disk[g]]
      /\ published' = published
  BY Filled
<1> USE IdentityAssumption DEF Files, Materials
<1>3. Alone(p) /\ Materialised(p) /\ Stage(p)
  BY <1>1 DEF KeyInv, MemInv
<1>4. CASE f \in Materials
  <2>1. Beginning(p)
    BY <1>2, <1>3, <1>4 DEF Alone, Idle, Writing, Loading, Holding
  <2>2. disk.key = Absent /\ mem[p].file = Absent /\ \A q \in Procs \ {p} : Idle(q)
    BY <1>3, <2>1 DEF Alone, Beginning
  <2>3. disk.meta \in {Absent, Empty} /\ published = {}
    BY <1>1, <2>2, DiskKeyIs
  <2>4. \A q \in Procs \ {p} : Idle(q)' /\ ~Beginning(q)' /\ ~Writing(q)' /\ ~Loading(q)' /\ ~Holding(q)'
    BY <1>2, <2>2 DEF Idle, Beginning, Writing, Loading, Holding
  <2>5. \A q \in Procs \ {p} : Alone(q)' /\ Materialised(q)'
    BY <1>2, <2>2, <2>4 DEF Alone, Materialised, Idle
  <2>6. disk'.key = Absent /\ disk'.meta = disk.meta
    BY <1>2, <1>4, <2>2
  <2>7. Learns(p, f, p) /\ disk'[f] = p /\ pc'[p] = AfterMaterial(p, f)
    BY <1>2, <1>4 DEF Fill, Content, AfterFill
  <2>8. /\ mem'[p].salt = IF f = "salt" THEN p ELSE mem[p].salt
        /\ mem'[p].secret = IF f = "secret" THEN p ELSE mem[p].secret
        /\ mem'[p].file = Absent
    BY <1>4, <2>2, <2>7, Learned DEF MemInv
  <2>9. Beginning(p)' /\ ~Writing(p)' /\ ~Loading(p)' /\ ~Holding(p)'
    BY <2>2, <2>7, <2>8 DEF Writing, Beginning, Loading, Holding, AfterMaterial
  <2>10. Alone(p)'
    BY <2>4, <2>6, <2>9 DEF Alone
  <2>11. Materialised(p)'
    <3>1. CASE f = "salt"
      BY <2>7, <2>8, <3>1 DEF Materialised, AfterMaterial
    <3>2. CASE f = "secret"
      <4>1. mem[p].salt = disk.salt /\ disk'.salt = disk.salt
        BY <1>2, <1>3, <2>1, <3>2 DEF Materialised
      <4> QED  BY <2>2, <2>7, <2>8, <3>2, <4>1 DEF Materialised, AfterMaterial
    <3> QED  BY <1>4, <3>1, <3>2
  <2> QED  BY <1>2, <2>3, <2>5, <2>6, <2>10, <2>11 DEF KeyInv
<1>5. CASE f = "key"
  <2>1. Writing(p)
    BY <1>2, <1>5 DEF Writing
  <2>2. disk.key = Empty /\ \A q \in Procs \ {p} : Idle(q) \/ Loading(q)
    BY <1>3, <2>1 DEF Alone
  <2>3. disk.meta \in {Absent, Empty} /\ published = {}
    BY <1>1, <2>2, DiskKeyIs
  <2>4. mem[p].salt = disk.salt /\ mem[p].secret = disk.secret /\ mem[p].salt \in Material /\ mem[p].secret \in Material
    BY <1>2, <1>3, <1>5 DEF Materialised, Stage
  <2>5. /\ disk'.salt = disk.salt /\ disk'.secret = disk.secret /\ disk'.meta = disk.meta
        /\ disk'.key = [key |-> mem[p].key, salt |-> mem[p].salt, secret |-> mem[p].secret]
    BY <1>2, <1>5 DEF Content
  <2>6. pc'[p] = <<"open", "meta">>
    BY <1>2, <1>5 DEF AfterFill
  <2>7. mem'[p].key = mem[p].key /\ mem'[p].id = mem[p].key
    <3>1. Keeps(p, mem[p].key)
      BY <1>5 DEF Fill
    <3> QED  BY <3>1 DEF MemInv, Shapes, Keeps, Fresh
  <2>8. mem[p].key \in Keys
    <3>1. mem[p].file = Absent /\ mem[p].key # NoKey
      BY <1>2, <1>3, <1>5 DEF Stage, Reading
    <3>2. mem[p].key \in 0 .. made /\ made \in 0 .. MaxKeys
      BY DEF MemInv, IdentityTypeOK
    <3> QED  BY <3>1, <3>2 DEF Keys, NoKey
  <2>9. disk'.key \in KeyFile
    BY <2>4, <2>5, <2>8 DEF KeyFile
  <2>10. Decrypts(disk'.key, disk'.salt, disk'.secret)
    BY <2>4, <2>5, <2>9 DEF Decrypts
  <2>11. DiskKey' = mem[p].key /\ DiskKey' # NoKey
    BY <2>5, <2>8, <2>10 DEF DiskKey, Keys, NoKey
  <2>12. Holding(p)' /\ ~Beginning(p)' /\ ~Writing(p)' /\ ~Loading(p)' /\ ~Idle(p)'
    BY <2>6 DEF Holding, Beginning, Writing, Loading, Idle
  <2>13. Alone(p)' /\ Materialised(p)'
    BY <2>6, <2>7, <2>11, <2>12 DEF Alone, Materialised
  <2>14. ASSUME NEW q \in Procs \ {p}  PROVE Alone(q)' /\ Materialised(q)'
    <3>1. /\ Beginning(q)' = Beginning(q) /\ Writing(q)' = Writing(q) /\ Loading(q)' = Loading(q)
          /\ Holding(q)' = Holding(q) /\ Idle(q)' = Idle(q)
      BY <1>2, <2>14 DEF Beginning, Writing, Loading, Holding, Idle
    <3>2. (Idle(q) \/ Loading(q)) /\ ~Beginning(q) /\ ~Writing(q) /\ ~Holding(q)
      <4>1. Idle(q) \/ Loading(q)
        BY <2>2, <2>14
      <4>2. pc[q] \notin {<<"fill", "key">>, <<"meta">>, <<"open", "meta">>, <<"fill", "meta">>, <<"boot">>, <<"up">>}
        BY <4>1 DEF Idle, Loading
      <4>3. ~Beginning(q)
        BY <4>1 DEF Idle, Loading, Beginning
      <4> QED  BY <4>1, <4>2, <4>3 DEF Writing, Holding
    <3>3. Alone(q) /\ Materialised(q)
      BY <1>1, <2>14 DEF KeyInv
    <3>4. Alone(q)'
      BY <1>2, <2>2, <2>5, <2>14, <3>1, <3>2, <3>3 DEF Alone
    <3>5. Materialised(q)'
      <4>1. pc[q] \notin {"open", "fill"} \X {"salt", "secret", "key"}
        BY <3>2 DEF Idle, Loading
      <4> QED  BY <1>2, <2>14, <3>1, <3>2, <4>1 DEF Materialised
    <3> QED  BY <3>4, <3>5
  <2> QED  BY <1>2, <2>3, <2>4, <2>5, <2>10, <2>13, <2>14 DEF KeyInv, Material
<1>6. CASE f = "meta"
  <2>1. Holding(p) /\ ~Beginning(p) /\ ~Loading(p) /\ ~Writing(p) /\ ~Idle(p)
    BY <1>2, <1>6 DEF Idle, Writing, Loading, Holding, Beginning
  <2>2. mem' = mem /\ pc'[p] = <<"boot">> /\ disk'.meta = mem[p].id
    BY <1>2, <1>6 DEF Fill, AfterFill, Content
  <2>3. Holding(p)' /\ ~Beginning(p)' /\ ~Loading(p)' /\ ~Writing(p)' /\ ~Idle(p)'
    BY <2>2 DEF Idle, Writing, Loading, Holding, Beginning
  <2>4. mem[p].id = DiskKey /\ DiskKey # NoKey
    BY <1>3, <2>1 DEF Alone
  <2>5. disk'.salt = disk.salt /\ disk'.secret = disk.secret /\ disk'.key = disk.key /\ DiskKey' = DiskKey
    BY <1>2, <1>6 DEF DiskKey
  <2>6. ASSUME NEW q \in Procs  PROVE Alone(q)'
    <3>1. \A r \in Procs : /\ Beginning(r)' = Beginning(r) /\ Writing(r)' = Writing(r) /\ Loading(r)' = Loading(r)
                           /\ Holding(r)' = Holding(r) /\ Idle(r)' = Idle(r)
      BY <1>2, <2>1, <2>2, <2>3 DEF Idle, Writing, Loading, Holding, Beginning
    <3>2. Alone(q)
      BY <1>1 DEF KeyInv
    <3> QED  BY <2>2, <2>5, <3>1, <3>2 DEF Alone
  <2>7. ASSUME NEW q \in Procs  PROVE Materialised(q)'
    <3>1. Materialised(q) /\ Beginning(q)' = Beginning(q)
      BY <1>1, <1>2, <2>1, <2>2, <2>3 DEF KeyInv, Beginning
    <3>2. CASE q = p
      BY <2>2, <2>3, <3>2 DEF Materialised
    <3>3. CASE q # p
      BY <1>2, <2>5, <3>1, <3>3 DEF Materialised
    <3> QED  BY <3>2, <3>3
  <2> QED  BY <1>1, <1>2, <2>2, <2>4, <2>5, <2>6, <2>7 DEF KeyInv, Decrypts
<1> QED  BY <1>4, <1>5, <1>6

\* Only an empty key file is ever removed.
LEMMA KeyRemoved ==
  ASSUME MemInv, MemInv', KeyInv, RemoveKey
  PROVE  KeyInv'
<1> USE IdentityAssumption
<1>1. SUFFICES ASSUME ~raced  PROVE KeyInv'
  BY DEF KeyInv, RemoveKey, limits
<1>2. /\ \A p \in Procs : mem[p].key = NoKey
      /\ disk.key # Absent /\ DiskKey = NoKey
      /\ disk'.key = Absent /\ disk'.salt = disk.salt /\ disk'.secret = disk.secret /\ disk'.meta = disk.meta
      /\ pc' = pc /\ mem' = mem /\ published' = published
  BY DEF MemInv, Shapes, RemoveKey, limits, Files, Materials
<1>3. disk.key = Empty /\ disk.meta \in {Absent, Empty} /\ published = {}
  BY <1>1, <1>2, DiskKeyIs
<1>4. ASSUME NEW q \in Procs  PROVE Alone(q)' /\ Materialised(q)'
  <2>1. /\ Beginning(q)' = Beginning(q) /\ Writing(q)' = Writing(q) /\ Loading(q)' = Loading(q)
        /\ Holding(q)' = Holding(q) /\ Idle(q)' = Idle(q)
    BY <1>2 DEF Beginning, Writing, Loading, Holding, Idle
  <2>2. ~Beginning(q) /\ ~Writing(q) /\ ~Holding(q)
    <3>1. mem[q].key = NoKey /\ Stage(q) /\ Alone(q)
      BY <1>1, <1>2 DEF KeyInv, MemInv
    <3>2. ~Beginning(q)
      BY <1>2, <3>1 DEF Alone
    <3>3. ~Writing(q)
      BY <3>1 DEF Stage, Writing, Reading, Materials
    <3>4. ~Holding(q)
      BY <3>1 DEF Alone
    <3> QED  BY <3>2, <3>3, <3>4
  <2>3. Alone(q) /\ Materialised(q)
    BY <1>1 DEF KeyInv
  <2>4. Alone(q)'
    BY <1>2, <1>3, <2>1, <2>2, <2>3 DEF Alone
  <2>5. Materialised(q)'
    BY <1>2, <2>1, <2>2, <2>3 DEF Materialised
  <2> QED  BY <2>4, <2>5
<1> QED  BY <1>2, <1>3, <1>4 DEF KeyInv

-----------------------------------------------------------------------------
LEMMA IdentityStart == IdentityInit => MemInv /\ KeyInv
<1>0. /\ Fresh.salt = Absent /\ Fresh.secret = Absent /\ Fresh.file = Absent
      /\ Fresh.key = 0 /\ Fresh.id = 0
  BY DEF Fresh, NoKey
<1> USE IdentityAssumption DEF NoKey, Keys, Files, Materials
<1> SUFFICES ASSUME IdentityInit  PROVE MemInv /\ KeyInv
  OBVIOUS
<1>1. /\ \A p \in Procs : Idle(p) /\ mem[p] = Fresh /\ pc[p] = <<"idle">>
      /\ disk.salt = Absent /\ disk.secret = Absent /\ disk.key = Absent /\ disk.meta = Absent
      /\ published = {} /\ made = 0 /\ crashes = 0 /\ raced = FALSE
      /\ pc \in [Procs -> Points]
  BY DEF IdentityInit, Idle, Points
<1>2. Fresh \in Memory
  BY DEF Fresh, Memory
<1>3. Shapes
  BY <1>2 DEF IdentityInit, Shapes
<1>4. \A p \in Procs : /\ mem[p].salt = Absent /\ mem[p].secret = Absent /\ mem[p].file = Absent
                       /\ mem[p].key = 0 /\ mem[p].id = 0
  BY <1>0, <1>1
<1>5. /\ \A x \in {"salt", "secret", "decrypt", "meta", "boot", "up"} : <<x>> # <<"idle">>
      /\ \A x, f : <<x, f>> # <<"idle">>
  OBVIOUS
<1>6. IdentityTypeOK
  <2>1. 0 \in 0 .. 0 /\ 0 \in 0 .. MaxKeys /\ 0 \in 0 .. MaxCrashes
    OBVIOUS
  <2>2. \A p \in Procs : pc[p] \notin {<<"boot">>, <<"up">>}
    BY <1>1, <1>5
  <2> QED  BY <1>1, <1>4, <2>1, <2>2 DEF IdentityTypeOK
<1>7. Made
  BY <1>1, <1>4 DEF Made
<1>8. \A p \in Procs : Stage(p)
  BY <1>1, <1>4, <1>5 DEF Stage
<1>9. \A p \in Procs : Alone(p)
  BY <1>1, <1>4, <1>5 DEF Alone, Idle, Beginning, Writing, Loading, Holding
<1>10. \A p \in Procs : Materialised(p)
  BY <1>1, <1>5 DEF Materialised
<1> QED  BY <1>1, <1>3, <1>6, <1>7, <1>8, <1>9, <1>10 DEF MemInv, KeyInv

LEMMA MemRemoved ==
  ASSUME MemInv, RemoveKey
  PROVE  MemInv'
<1> USE IdentityAssumption DEF Files, Materials
<1>1. /\ disk' = [g \in Files |-> IF g = "key" THEN Absent ELSE disk[g]]
      /\ UNCHANGED <<pc, mem, published, made, crashes, raced>>
  BY DEF MemInv, Shapes, RemoveKey, limits
<1>2. disk'.key = Absent /\ disk'.salt = disk.salt /\ disk'.secret = disk.secret /\ disk'.meta = disk.meta
  BY <1>1
<1>3. Shapes'
  BY <1>1 DEF MemInv, Shapes
<1>4. IdentityTypeOK'
  BY <1>1, <1>2 DEF MemInv, IdentityTypeOK
<1>5. Made'
  BY <1>1, <1>2 DEF MemInv, Made
<1>6. \A p \in Procs : Stage(p)'
  BY <1>1 DEF MemInv, Stage
<1> QED  BY <1>3, <1>4, <1>5, <1>6 DEF MemInv

LEMMA IdentityStep == MemInv /\ KeyInv /\ [IdentityNext]_identityVars => MemInv' /\ KeyInv'
<1> SUFFICES ASSUME MemInv, KeyInv, [IdentityNext]_identityVars  PROVE MemInv' /\ KeyInv'
  OBVIOUS
<1>1. CASE RemoveKey
  BY <1>1, MemRemoved, KeyRemoved
<1>2. ASSUME NEW p \in Procs, ProcStep(p)  PROVE MemInv' /\ KeyInv'
  <2>1. CASE Load(p)
    BY <1>2, <2>1, MemLoad, KeyLoad
  <2>2. CASE Create(p)
    BY <1>2, <2>2, MemCreate, KeyCreate
  <2>3. CASE Decrypt(p)
    BY <1>2, <2>3, MemDecrypt, KeyDecrypt
  <2>4. CASE ReadMeta(p)
    BY <1>2, <2>4, MemReadMeta, KeyHolder
  <2>5. CASE Publish(p)
    BY <1>2, <2>5, MemPublish, KeyPublish
  <2>6. CASE \E f \in Materials : GetMaterial(p, f)
    BY <1>2, <2>6, MemGetMaterial, KeyGetMaterial
  <2>7. CASE \E f \in Files : Truncate(p, f)
    BY <1>2, <2>7, MemTruncate, KeyTruncate
  <2>8. CASE \E f \in Files : Fill(p, f)
    BY <1>2, <2>8, MemFill, KeyFill
  <2> QED  BY <1>2, <2>1, <2>2, <2>3, <2>4, <2>5, <2>6, <2>7, <2>8 DEF ProcStep
<1>3. ASSUME NEW p \in Procs, SetAlias(p)  PROVE MemInv' /\ KeyInv'
  BY <1>3, MemSetAlias, KeyHolder
<1>4. ASSUME NEW p \in Procs, Quit(p)  PROVE MemInv' /\ KeyInv'
  BY <1>4, MemQuit, KeyGone
<1>5. ASSUME NEW p \in Procs, Crash(p)  PROVE MemInv' /\ KeyInv'
  BY <1>5, MemCrash, KeyGone
<1>6. CASE UNCHANGED identityVars
  <2>1. /\ disk' = disk /\ pc' = pc /\ mem' = mem /\ published' = published
        /\ made' = made /\ crashes' = crashes /\ raced' = raced
    BY <1>6 DEF identityVars
  <2>2. MemInv'
    BY <2>1 DEF MemInv, IdentityTypeOK, Shapes, Made, Stage
  <2>3. KeyInv'
    BY <2>1 DEF KeyInv, Decrypts, DiskKey, Alone, Materialised, Beginning, Writing, Loading, Holding, Idle
  <2> QED  BY <2>2, <2>3
<1> QED  BY <1>1, <1>2, <1>3, <1>4, <1>5, <1>6 DEF IdentityNext

LEMMA IdentityInvariant == IdentitySpec => [](MemInv /\ KeyInv)
<1> QED  BY IdentityStart, IdentityStep, PTL DEF IdentitySpec

(* The variables of NodeIdentity keep their types: in particular no process  *)
(* is up without a key and a node_id, in spite of the races and crashes.     *)
THEOREM IdentityTyped == IdentitySpec => []IdentityTypeOK
<1>1. MemInv /\ KeyInv => IdentityTypeOK
  BY DEF MemInv
<1> QED  BY <1>1, IdentityInvariant, PTL

(* For any number of processes, keys and crashes: what was published belongs *)
(* to the key on disk, which can be decrypted, unless two processes created  *)
(* an identity at once.                                                      *)
THEOREM IdentityStays == IdentitySpec => []IdentityKept
<1>1. MemInv /\ KeyInv => IdentityKept
  BY DEF KeyInv, IdentityKept
<1> QED  BY <1>1, IdentityInvariant, PTL

-----------------------------------------------------------------------------
(* CanvasApi: what is on its way belongs to a connection that is open.       *)
LinkInv == \A p \in Peers :
  requests[p] # <<>> \/ serving[p] # None => p \in connections \ closed

\* A call takes only what it asks for, and returns what it took.
FetchInv == \A f \in Calls :
  /\ call[f].future \in {None, call[f].cid}
  /\ call[f].pc = "idle" => call[f].future = None /\ call[f].asked = {}
  /\ call[f].pc = "asking" => call[f].cid \in Blocks
  /\ call[f].pc # "done" => call[f].reply = None
  /\ call[f].reply \in Blocks =>
       call[f].reply = call[f].cid /\ {call[f].cid, Recoded(call[f].cid)} \cap store # {}

\* a block that p was asked for and has not been taken here
Owed(p, b) == b \in Elements(requests[p]) \/ b = serving[p] \/ b \in Elements(arriving[p])

\* A peer that was asked and can send the block owes it, until the call has it.
AskInv == \A f \in Calls : call[f].pc = "asking" =>
  /\ call[f].todo \subseteq connections
  /\ call[f].asked \subseteq connections \ closed
  /\ \A p \in call[f].asked :
       call[f].future = None /\ CanSend(p, call[f].cid) => Owed(p, call[f].cid)

\* Only clients that have gone are dropped by a broadcast.
WebInv ==
  /\ \A p \in Peers : \A c \in relay[p].dead : client[c] = "gone"
  /\ OpenIsRegistered

CanvasInv == CanvasTypeOK /\ LinkInv /\ FetchInv /\ AskInv /\ WebInv

\* What a sequence holds after it has grown, and before its head is taken.
LEMMA ElementsAre ==
  ASSUME NEW S, NEW s \in Seq(S)
  PROVE  /\ \A x : Elements(Append(s, x)) = Elements(s) \cup {x}
         /\ s # <<>> => Head(s) \in S /\ Tail(s) \in Seq(S) /\ Elements(s) = {Head(s)} \cup Elements(Tail(s))
<1>1. ASSUME NEW x  PROVE Elements(Append(s, x)) = Elements(s) \cup {x}
  <2>1. DOMAIN Append(s, x) = 1 .. Len(s) + 1 /\ DOMAIN s = 1 .. Len(s) /\ Len(s) \in Nat
    OBVIOUS
  <2>2. \A i \in 1 .. Len(s) : Append(s, x)[i] = s[i]
    OBVIOUS
  <2>3. Append(s, x)[Len(s) + 1] = x
    OBVIOUS
  <2> QED  BY <2>1, <2>2, <2>3 DEF Elements
<1>2. ASSUME s # <<>>  PROVE Head(s) \in S /\ Tail(s) \in Seq(S) /\ Elements(s) = {Head(s)} \cup Elements(Tail(s))
  <2>1. /\ Len(s) \in Nat \ {0} /\ DOMAIN s = 1 .. Len(s) /\ Head(s) = s[1] /\ Tail(s) \in Seq(S)
        /\ DOMAIN Tail(s) = 1 .. Len(s) - 1
    BY <1>2
  <2>2. \A i \in 1 .. Len(s) - 1 : Tail(s)[i] = s[i + 1]
    BY <1>2
  <2>3. \A n \in Nat \ {0} : \A i \in 1 .. n : i = 1 \/ i - 1 \in 1 .. n - 1
    OBVIOUS
  <2>4. \A x \in Elements(s) : x \in {Head(s)} \cup Elements(Tail(s))
    <3> SUFFICES ASSUME NEW i \in 1 .. Len(s)  PROVE s[i] \in {Head(s)} \cup Elements(Tail(s))
      BY <2>1 DEF Elements
    <3>1. CASE i = 1
      BY <2>1, <3>1
    <3>2. CASE i - 1 \in 1 .. Len(s) - 1
      <4>1. Tail(s)[i - 1] = s[i]
        BY <2>1, <2>2, <3>2
      <4> QED  BY <2>1, <3>2, <4>1 DEF Elements
    <3> QED  BY <2>1, <2>3, <3>1, <3>2
  <2>5. \A x \in {Head(s)} \cup Elements(Tail(s)) : x \in Elements(s)
    BY <2>1, <2>2 DEF Elements
  <2>6. Head(s) \in S
    BY <2>1
  <2> QED  BY <2>1, <2>4, <2>5, <2>6
<1> QED  BY <1>1, <1>2

\* a call as its type says
Asks == [pc : {"idle", "asking", "done"}, cid : Blocks \cup {None}, todo : SUBSET Peers,
         draining : SUBSET Peers, asked : SUBSET Peers, future : Blocks \cup {None}, reply : Replies]

\* only whom the call asks may change
Stays(f) == /\ call'[f].pc = call[f].pc /\ call'[f].cid = call[f].cid
            /\ call'[f].future = call[f].future /\ call'[f].reply = call[f].reply

LEMMA CanvasCall ==
  ASSUME CanvasInv, NEW f \in Calls, NEW b \in Blocks, Call(f, b)
  PROVE  CanvasInv'
<1> USE CanvasAssumption
<1>1. CanvasTypeOK'
  <2>1. call' \in [Calls -> Asks] /\ handlers' \subseteq Calls
    <3> DEFINE asks == connections # {}
               r == [call[f] EXCEPT !.cid = b, !.pc = IF asks THEN "asking" ELSE "done",
                                    !.todo = connections, !.reply = IF asks THEN None ELSE NotFound]
    <3>1. call \in [Calls -> Asks] /\ connections \subseteq Peers /\ handlers \subseteq Calls
      BY DEF CanvasInv, CanvasTypeOK, Asks
    <3>2. r \in Asks
      <4>1. call[f] \in Asks
        BY <3>1
      <4> QED  BY <3>1, <4>1 DEF Asks, Replies
    <3>3. call' = [call EXCEPT ![f] = r]
      BY DEF Call
    <3> HIDE DEF r
    <3> QED  BY <3>1, <3>2, <3>3 DEF Call
  <2>2. \A g \in Calls : call'[g].pc = "asking" => g \in handlers'
    BY DEF CanvasInv, CanvasTypeOK, Call
  <2> QED  BY <2>1, <2>2 DEF CanvasInv, CanvasTypeOK, Asks, Call, mesh, web
<1>2. LinkInv'
  BY DEF CanvasInv, LinkInv, Call, mesh
<1>3. FetchInv'
  BY DEF CanvasInv, CanvasTypeOK, FetchInv, Recoded, Call
<1>4. AskInv'
  BY DEF CanvasInv, CanvasTypeOK, AskInv, FetchInv, Owed, CanSend, Call, mesh
<1>5. WebInv'
  BY DEF CanvasInv, WebInv, OpenIsRegistered, Call, web
<1> QED  BY <1>1, <1>2, <1>3, <1>4, <1>5 DEF CanvasInv

LEMMA CanvasSend ==
  ASSUME CanvasInv, NEW f \in Calls, NEW p \in Peers, Send(f, p)
  PROVE  CanvasInv'
<1> USE CanvasAssumption
<1>1. /\ call[f].pc = "asking" /\ p \in call[f].todo /\ \A g \in Calls \ {f} : call'[g] = call[g]
      /\ Stays(f) /\ call'[f].todo = call[f].todo \ {p}
      /\ call'[f].asked = IF p \in closed THEN call[f].asked ELSE call[f].asked \cup {p}
      /\ call' \in [Calls -> Asks]
  <2>1. call \in [Calls -> Asks]
    BY DEF CanvasInv, CanvasTypeOK, Asks
  <2> DEFINE d == IF p \notin closed /\ Congested(requests[p]) THEN {p} ELSE {}
             a == IF p \in closed THEN call[f].asked ELSE call[f].asked \cup {p}
  <2>2. d \in SUBSET Peers
    OBVIOUS
  <2>3. call' = [call EXCEPT ![f].todo = @ \ {p}, ![f].asked = a, ![f].draining = d]
    BY <2>1 DEF Asks, Send
  <2>4. a \in SUBSET Peers
    BY <2>1 DEF Asks
  <2>5. call[f].pc = "asking" /\ p \in call[f].todo
    BY DEF Send
  <2> HIDE DEF d
  <2>6. call' = [call EXCEPT ![f] = [call[f] EXCEPT !.todo = call[f].todo \ {p}, !.asked = a, !.draining = d]]
    BY <2>1, <2>3 DEF Asks
  <2>7. [call[f] EXCEPT !.todo = call[f].todo \ {p}, !.asked = a, !.draining = d] \in Asks
    BY <2>1, <2>2, <2>4 DEF Asks
  <2> QED  BY <2>1, <2>5, <2>6, <2>7 DEF Asks, Stays
<1>2. /\ requests' \in [Peers -> Seq(Blocks \cup {OurBlock})] /\ \A q \in Peers \ {p} : requests'[q] = requests[q]
      /\ p \in closed => requests'[p] = requests[p]
      /\ p \notin closed => requests'[p] = Append(requests[p], call[f].cid)
      /\ \A q \in Peers : Elements(requests[q]) \subseteq Elements(requests'[q])
      /\ p \notin closed => call[f].cid \in Elements(requests'[p])
      /\ UNCHANGED <<handlers, connections, closed, serving, answering, arriving, store, web, faults>>
  <2>1. call[f].cid \in Blocks
    BY <1>1 DEF CanvasInv, FetchInv
  <2>2. requests[p] \in Seq(Blocks \cup {OurBlock})
    BY DEF CanvasInv, CanvasTypeOK
  <2>3. Elements(Append(requests[p], call[f].cid)) = Elements(requests[p]) \cup {call[f].cid}
    BY <2>2, ElementsAre
  <2>4. Append(requests[p], call[f].cid) \in Seq(Blocks \cup {OurBlock})
    BY <2>1, <2>2
  <2> QED  BY <2>2, <2>3, <2>4 DEF CanvasInv, CanvasTypeOK, Send
<1>3. p \in connections
  BY <1>1 DEF CanvasInv, AskInv
<1>4. CanvasTypeOK'
  BY <1>1, <1>2 DEF CanvasInv, CanvasTypeOK, Asks, Stays, web
<1>5. LinkInv'
  BY <1>2, <1>3 DEF CanvasInv, LinkInv
<1>6. FetchInv'
  BY <1>1, <1>2 DEF CanvasInv, FetchInv, Stays
<1>7. AskInv'
  <2>1. \A b : \A q \in Peers : Owed(q, b) => Owed(q, b)'
    BY <1>2 DEF Owed
  <2>2. p \notin closed => \A b : b = call[f].cid => Owed(p, b)'
    BY <1>2 DEF Owed
  <2>3. \A g \in Calls : call[g].asked \subseteq Peers
    BY DEF CanvasInv, CanvasTypeOK
  <2> QED  BY <1>1, <1>2, <1>3, <2>1, <2>2, <2>3 DEF CanvasInv, AskInv, Stays, CanSend
<1>8. WebInv'
  BY <1>2 DEF CanvasInv, WebInv, OpenIsRegistered, web
<1> QED  BY <1>4, <1>5, <1>6, <1>7, <1>8 DEF CanvasInv

\* A call that ends without the block.
LEMMA CanvasEnds ==
  ASSUME CanvasInv, NEW f \in Calls, AddFails(f) \/ TimeOut(f)
  PROVE  CanvasInv'
<1> USE CanvasAssumption
<1>1. \E r \in {Failed, NotFound} : call' = [call EXCEPT ![f].pc = "done", ![f].reply = r]
  BY DEF AddFails, TimeOut
<1>2. /\ \A g \in Calls \ {f} : call'[g] = call[g]
      /\ call'[f].pc = "done" /\ call'[f].reply \in {Failed, NotFound}
      /\ call'[f].cid = call[f].cid /\ call'[f].future = call[f].future
      /\ call' \in [Calls -> Asks]
  <2>1. call \in [Calls -> Asks]
    BY DEF CanvasInv, CanvasTypeOK, Asks
  <2>2. PICK r \in {Failed, NotFound} : call' = [call EXCEPT ![f].pc = "done", ![f].reply = r]
    BY <1>1
  <2>3. r \in Replies
    BY DEF Replies
  <2>4. call' = [call EXCEPT ![f] = [call[f] EXCEPT !.pc = "done", !.reply = r]]
    BY <2>1, <2>2 DEF Asks
  <2>5. [call[f] EXCEPT !.pc = "done", !.reply = r] \in Asks
    BY <2>1, <2>3 DEF Asks
  <2> QED  BY <2>1, <2>2, <2>4, <2>5 DEF Asks
<1>3. /\ UNCHANGED <<handlers, connections, closed, requests, serving, answering, arriving, store,
                     relay, endpoint, client, registered>>
      /\ faults' \in 0 .. MaxFaults
  BY DEF CanvasInv, CanvasTypeOK, AddFails, TimeOut, Fault, mesh, web
<1>4. CanvasTypeOK'
  BY <1>2, <1>3 DEF CanvasInv, CanvasTypeOK, Asks
<1>5. LinkInv'
  BY <1>3 DEF CanvasInv, LinkInv
<1>6. FetchInv'
  BY <1>2, <1>3 DEF CanvasInv, FetchInv, Recoded
<1>7. AskInv'
  BY <1>2, <1>3 DEF CanvasInv, AskInv, Owed, CanSend
<1>8. WebInv'
  BY <1>3 DEF CanvasInv, WebInv, OpenIsRegistered
<1> QED  BY <1>4, <1>5, <1>6, <1>7, <1>8 DEF CanvasInv

LEMMA CanvasConnect ==
  ASSUME CanvasInv, NEW p \in Peers, Connect(p)
  PROVE  CanvasInv'
<1> USE CanvasAssumption
<1>1. arriving' \in [Peers -> Seq(Blocks \cup Events \cup {PeerAsks})]
  <2>1. <<PeerCard>> \in Seq(Blocks \cup Events \cup {PeerAsks})
    BY DEF Events
  <2> QED  BY <2>1 DEF CanvasInv, CanvasTypeOK, Connect
<1>2. CanvasTypeOK'
  BY <1>1 DEF CanvasInv, CanvasTypeOK, Connect, web
<1>3. LinkInv'
  BY DEF CanvasInv, LinkInv, Connect
<1>4. FetchInv'
  BY DEF CanvasInv, FetchInv, Connect
<1>5. AskInv'
  BY DEF CanvasInv, CanvasTypeOK, AskInv, Owed, CanSend, Connect
<1>6. WebInv'
  BY DEF CanvasInv, WebInv, OpenIsRegistered, Connect, web
<1> QED  BY <1>2, <1>3, <1>4, <1>5, <1>6 DEF CanvasInv

LEMMA CanvasAnnounce ==
  ASSUME CanvasInv, NEW p \in Peers, Announce(p)
  PROVE  CanvasInv'
<1> USE CanvasAssumption
<1>1. /\ arriving' \in [Peers -> Seq(Blocks \cup Events \cup {PeerAsks})]
      /\ \A q \in Peers : Elements(arriving[q]) \subseteq Elements(arriving'[q])
  <2>1. arriving[p] \in Seq(Blocks \cup Events \cup {PeerAsks}) /\ News \in Blocks \cup Events
    BY DEF CanvasInv, CanvasTypeOK, Events
  <2>2. Append(arriving[p], News) \in Seq(Blocks \cup Events \cup {PeerAsks})
    BY <2>1
  <2>3. Elements(Append(arriving[p], News)) = Elements(arriving[p]) \cup {News}
    BY <2>1, ElementsAre
  <2> QED  BY <2>2, <2>3 DEF CanvasInv, CanvasTypeOK, Announce
<1>2. CanvasTypeOK'
  BY <1>1 DEF CanvasInv, CanvasTypeOK, Announce, Fault, web
<1>3. LinkInv'
  BY DEF CanvasInv, LinkInv, Announce
<1>4. FetchInv'
  BY DEF CanvasInv, FetchInv, Announce
<1>5. AskInv'
  <2>1. \A b : \A q \in Peers : Owed(q, b) => Owed(q, b)'
    BY <1>1 DEF Owed, Announce
  <2>2. \A g \in Calls : call[g].asked \subseteq Peers
    BY DEF CanvasInv, CanvasTypeOK
  <2> QED  BY <2>1, <2>2 DEF CanvasInv, AskInv, CanSend, Announce
<1>6. WebInv'
  BY DEF CanvasInv, WebInv, OpenIsRegistered, Announce, web
<1> QED  BY <1>2, <1>3, <1>4, <1>5, <1>6 DEF CanvasInv

\* The end of a peer is over: nothing that it was asked is owed any more.
LEMMA CanvasClose ==
  ASSUME CanvasInv, NEW p \in connections, Close(p),
         UNCHANGED <<handlers, connections, answering, arriving, store, web>>, faults' \in 0 .. MaxFaults
  PROVE  CanvasInv'
<1> USE CanvasAssumption
<1>0. p \in Peers
  BY DEF CanvasInv, CanvasTypeOK
<1>1. /\ \A g \in Calls : /\ Stays(g) /\ call'[g].todo = call[g].todo
                          /\ call'[g].asked = call[g].asked \ {p}
      /\ call' \in [Calls -> Asks]
  <2>1. call \in [Calls -> Asks]
    BY DEF CanvasInv, CanvasTypeOK, Asks
  <2>2. call' = [f \in Calls |-> [call[f] EXCEPT !.asked = @ \ {p}]]
    BY DEF Close
  <2>3. \A g \in Calls : [call[g] EXCEPT !.asked = @ \ {p}] \in Asks
    BY <2>1 DEF Asks
  <2> QED  BY <2>1, <2>2, <2>3 DEF Asks, Stays
<1>2. /\ closed' = closed \cup {p} /\ requests' \in [Peers -> Seq(Blocks \cup {OurBlock})]
      /\ serving' \in [Peers -> Blocks \cup {None, Sending}]
      /\ requests'[p] = <<>> /\ serving'[p] = None
      /\ \A q \in Peers \ {p} : requests'[q] = requests[q] /\ serving'[q] = serving[q]
  BY <1>0 DEF CanvasInv, CanvasTypeOK, Close
<1>3. CanvasTypeOK'
  BY <1>1, <1>2 DEF CanvasInv, CanvasTypeOK, Asks, Stays, web
<1>4. LinkInv'
  BY <1>2 DEF CanvasInv, LinkInv
<1>5. FetchInv'
  BY <1>1 DEF CanvasInv, FetchInv, Stays
<1>6. AskInv'
  <2>1. \A b : \A q \in Peers \ {p} : Owed(q, b) => Owed(q, b)'
    BY <1>2 DEF Owed
  <2>2. \A g \in Calls : call[g].asked \subseteq Peers
    BY DEF CanvasInv, CanvasTypeOK
  <2>3. \A g \in Calls : call'[g].asked \subseteq Peers \ {p}
    BY <1>1, <2>2
  <2>4. SUFFICES ASSUME NEW g \in Calls, call[g].pc = "asking"
                 PROVE  /\ call'[g].todo \subseteq connections' /\ call'[g].asked \subseteq connections' \ closed'
                        /\ \A q \in call'[g].asked :
                             call'[g].future = None /\ CanSend(q, call'[g].cid) => Owed(q, call[g].cid)'
    <3>1. ASSUME NEW g \in Calls, call'[g].pc = "asking"  PROVE call[g].pc = "asking"
      BY <1>1, <3>1 DEF Stays
    <3>2. \A q, b : CanSend(q, b)' = CanSend(q, b)
      BY DEF CanSend
    <3> QED  BY <2>4, <3>1 DEF AskInv, CanSend
  <2>5. /\ call[g].todo \subseteq connections /\ call[g].asked \subseteq connections \ closed
        /\ \A q \in call[g].asked : call[g].future = None /\ CanSend(q, call[g].cid) => Owed(q, call[g].cid)
    BY <2>4 DEF CanvasInv, AskInv
  <2>6. \A q \in Peers \ {p} : Owed(q, call[g].cid) => Owed(q, call[g].cid)'
    <3>1. call'[g].cid = call[g].cid
      BY <1>1 DEF Stays
    <3> QED  BY <1>2, <3>1 DEF Owed
  <2> QED  BY <1>1, <1>2, <2>3, <2>5, <2>6 DEF Stays
<1>7. WebInv'
  BY DEF CanvasInv, WebInv, OpenIsRegistered, web
<1> QED  BY <1>3, <1>4, <1>5, <1>6, <1>7 DEF CanvasInv

LEMMA CanvasLose ==
  ASSUME CanvasInv, NEW p \in Peers, Lose(p)
  PROVE  CanvasInv'
<1>1. /\ p \in connections /\ Close(p)
      /\ UNCHANGED <<handlers, connections, answering, arriving, store, web>> /\ faults' \in 0 .. MaxFaults
  BY CanvasAssumption DEF CanvasInv, CanvasTypeOK, Lose, Fault
<1> QED  BY <1>1, CanvasClose

LEMMA CanvasNotice ==
  ASSUME CanvasInv, NEW p \in Peers, Notice(p)
  PROVE  CanvasInv'
<1> USE CanvasAssumption
<1>1. /\ \A g \in Calls : /\ Stays(g) /\ call'[g].asked = call[g].asked
                          /\ call'[g].todo = call[g].todo \ {p}
      /\ call' \in [Calls -> Asks]
  <2>1. call \in [Calls -> Asks]
    BY DEF CanvasInv, CanvasTypeOK, Asks
  <2>2. call' = [f \in Calls |-> [call[f] EXCEPT !.todo = @ \ {p}, !.draining = @ \ {p}]]
    BY DEF Notice
  <2>3. \A g \in Calls : [call[g] EXCEPT !.todo = @ \ {p}, !.draining = @ \ {p}] \in Asks
    BY <2>1 DEF Asks
  <2> QED  BY <2>1, <2>2, <2>3 DEF Asks, Stays
<1>2. /\ p \in closed /\ p \notin answering /\ connections' = connections \ {p} /\ closed' = closed \ {p}
      /\ UNCHANGED <<handlers, requests, serving, answering, arriving, store, web, faults>>
  BY DEF Notice, Reads
<1>3. CanvasTypeOK'
  BY <1>1, <1>2 DEF CanvasInv, CanvasTypeOK, Asks, Stays, web
<1>4. LinkInv'
  BY <1>2 DEF CanvasInv, LinkInv
<1>5. FetchInv'
  BY <1>1, <1>2 DEF CanvasInv, FetchInv, Stays
<1>6. AskInv'
  BY <1>1, <1>2 DEF CanvasInv, AskInv, CanSend, Stays, Owed
<1>7. WebInv'
  BY <1>2 DEF CanvasInv, WebInv, OpenIsRegistered, web
<1> QED  BY <1>3, <1>4, <1>5, <1>6, <1>7 DEF CanvasInv

\* Only whom the call waits for changes.
LEMMA CanvasDrained ==
  ASSUME CanvasInv, NEW f \in Calls, NEW p \in Peers, Drained(f, p)
  PROVE  CanvasInv'
<1> USE CanvasAssumption
<1>1. /\ \A g \in Calls : Stays(g) /\ call'[g].asked = call[g].asked /\ call'[g].todo = call[g].todo
      /\ call' \in [Calls -> Asks]
  <2>1. call \in [Calls -> Asks]
    BY DEF CanvasInv, CanvasTypeOK, Asks
  <2>2. call' = [call EXCEPT ![f] = [call[f] EXCEPT !.draining = {}]]
    BY <2>1 DEF Asks, Drained
  <2>3. [call[f] EXCEPT !.draining = {}] \in Asks
    BY <2>1 DEF Asks
  <2> QED  BY <2>1, <2>2, <2>3 DEF Asks, Stays
<1>2. UNCHANGED <<handlers, connections, closed, requests, serving, answering, arriving, store,
                  relay, endpoint, client, registered, faults>>
  BY DEF Drained, mesh, web
<1>3. CanvasTypeOK'
  BY <1>1, <1>2 DEF CanvasInv, CanvasTypeOK, Asks, Stays
<1>4. LinkInv'
  BY <1>2 DEF CanvasInv, LinkInv
<1>5. FetchInv'
  BY <1>1, <1>2 DEF CanvasInv, FetchInv, Stays
<1>6. AskInv'
  BY <1>1, <1>2 DEF CanvasInv, AskInv, CanSend, Stays, Owed
<1>7. WebInv'
  BY <1>2 DEF CanvasInv, WebInv, OpenIsRegistered
<1> QED  BY <1>3, <1>4, <1>5, <1>6, <1>7 DEF CanvasInv

LEMMA CanvasTake ==
  ASSUME CanvasInv, NEW p \in Peers, Take(p)
  PROVE  CanvasInv'
<1> USE CanvasAssumption
<1> DEFINE h == Head(requests[p])
<1>1. /\ p \notin closed /\ serving[p] = None /\ requests[p] # <<>>
      /\ h \in Blocks \cup {OurBlock} /\ Tail(requests[p]) \in Seq(Blocks \cup {OurBlock})
      /\ Elements(requests[p]) = {h} \cup Elements(Tail(requests[p]))
  <2>1. requests[p] \in Seq(Blocks \cup {OurBlock})
    BY DEF CanvasInv, CanvasTypeOK
  <2> QED  BY <2>1, ElementsAre DEF Take
<1>2. /\ requests' \in [Peers -> Seq(Blocks \cup {OurBlock})] /\ serving' \in [Peers -> Blocks \cup {None, Sending}]
      /\ requests'[p] = Tail(requests[p]) /\ serving'[p] = IF h \in HeldBy[p] THEN h ELSE None
      /\ h \in HeldBy[p] => h \in Blocks
      /\ \A q \in Peers \ {p} : requests'[q] = requests[q] /\ serving'[q] = serving[q]
      /\ UNCHANGED <<call, handlers, connections, closed, answering, arriving, store, relay, endpoint, client,
                     registered, faults>>
  <2>1. h \in HeldBy[p] => h \in Blocks
    BY DEF Blocks
  <2> HIDE DEF h
  <2> QED  BY <1>1, <2>1 DEF CanvasInv, CanvasTypeOK, Take, web, h
<1> HIDE DEF h
<1>3. CanvasTypeOK'
  BY <1>2 DEF CanvasInv, CanvasTypeOK
<1>4. LinkInv'
  BY <1>1, <1>2 DEF CanvasInv, LinkInv
<1>5. FetchInv'
  BY <1>2 DEF CanvasInv, FetchInv
<1>6. AskInv'
  <2>1. \A q \in Peers, b \in Blocks : Owed(q, b) /\ CanSend(q, b) => Owed(q, b)'
    BY <1>1, <1>2 DEF Owed, CanSend
  <2>2. \A g \in Calls : call[g].asked \subseteq Peers /\ call[g].cid \in Blocks \cup {None}
    BY DEF CanvasInv, CanvasTypeOK
  <2>3. \A b : \A q \in Peers : CanSend(q, b) => b \in Blocks
    BY DEF CanSend, Blocks
  <2> QED  BY <1>2, <2>1, <2>2, <2>3 DEF CanvasInv, AskInv, CanSend
<1>7. WebInv'
  BY <1>2 DEF CanvasInv, WebInv, OpenIsRegistered
<1> QED  BY <1>3, <1>4, <1>5, <1>6, <1>7 DEF CanvasInv

LEMMA CanvasAnswer ==
  ASSUME CanvasInv, NEW p \in Peers, Answer(p)
  PROVE  CanvasInv'
<1> USE CanvasAssumption
<1>1. serving[p] \in Blocks /\ p \in connections
  BY DEF CanvasInv, CanvasTypeOK, LinkInv, Answer
<1>2. CASE serving[p] \in Large
  <2>1. /\ Close(p) /\ UNCHANGED <<handlers, connections, answering, arriving, store, web>>
        /\ faults' \in 0 .. MaxFaults
    BY <1>2 DEF CanvasInv, CanvasTypeOK, Answer
  <2> QED  BY <1>1, <2>1, CanvasClose
<1>3. CASE serving[p] \notin Large
  <2>1. /\ Append(arriving[p], serving[p]) \in Seq(Blocks \cup Events \cup {PeerAsks})
        /\ Elements(Append(arriving[p], serving[p])) = Elements(arriving[p]) \cup {serving[p]}
    <3>1. arriving[p] \in Seq(Blocks \cup Events \cup {PeerAsks})
      BY DEF CanvasInv, CanvasTypeOK
    <3> QED  BY <1>1, <3>1, ElementsAre
  <2>2. /\ arriving' \in [Peers -> Seq(Blocks \cup Events \cup {PeerAsks})] /\ serving' \in [Peers -> Blocks \cup {None, Sending}]
        /\ Elements(arriving'[p]) = Elements(arriving[p]) \cup {serving[p]}
        /\ \A q \in Peers \ {p} : arriving'[q] = arriving[q] /\ serving'[q] = serving[q]
        /\ UNCHANGED <<call, handlers, connections, closed, requests, answering, store, relay, endpoint, client,
                       registered, faults>>
    <3>1. /\ arriving' = [arriving EXCEPT ![p] = Append(@, serving[p])]
          /\ serving' = [serving EXCEPT ![p] = IF Congested(arriving'[p]) THEN Sending ELSE None]
          /\ UNCHANGED <<call, handlers, connections, closed, requests, answering, store, relay, endpoint, client,
                         registered, faults>>
      BY <1>3 DEF Answer, web
    <3> QED  BY <2>1, <3>1 DEF CanvasInv, CanvasTypeOK
  <2>3. CanvasTypeOK'
    BY <2>2 DEF CanvasInv, CanvasTypeOK
  <2>4. LinkInv'
    BY <1>1, <2>2 DEF CanvasInv, LinkInv
  <2>5. FetchInv'
    BY <2>2 DEF CanvasInv, FetchInv
  <2>6. AskInv'
    <3>1. \A b : \A q \in Peers : Owed(q, b) => Owed(q, b)'
      BY <2>2 DEF Owed
    <3>2. \A g \in Calls : call[g].asked \subseteq Peers
      BY DEF CanvasInv, CanvasTypeOK
    <3> QED  BY <2>2, <3>1, <3>2 DEF CanvasInv, AskInv, CanSend
  <2>7. WebInv'
    BY <2>2 DEF CanvasInv, WebInv, OpenIsRegistered
  <2> QED  BY <2>3, <2>4, <2>5, <2>6, <2>7 DEF CanvasInv
<1> QED  BY <1>2, <1>3

\* What is owed stays owed.
LEMMA CanvasAnswered ==
  ASSUME CanvasInv, NEW p \in Peers, Answered(p)
  PROVE  CanvasInv'
<1> USE CanvasAssumption
<1>1. /\ serving[p] = Sending /\ serving'[p] = None /\ \A q \in Peers \ {p} : serving'[q] = serving[q]
      /\ serving' \in [Peers -> Blocks \cup {None, Sending}]
  BY DEF CanvasInv, CanvasTypeOK, Answered
<1>2. UNCHANGED <<call, handlers, connections, closed, requests, answering, arriving, store, relay, endpoint,
                  client, registered, faults>>
  BY DEF Answered, web
<1>3. CanvasTypeOK'
  BY <1>1, <1>2 DEF CanvasInv, CanvasTypeOK
<1>4. LinkInv'
  BY <1>1, <1>2 DEF CanvasInv, LinkInv
<1>5. FetchInv'
  BY <1>2 DEF CanvasInv, FetchInv
<1>6. AskInv'
  <2>1. \A q \in Peers, b \in Blocks : Owed(q, b) => Owed(q, b)'
    BY <1>1, <1>2 DEF Owed
  <2>2. \A g \in Calls : call[g].asked \subseteq Peers
    BY DEF CanvasInv, CanvasTypeOK
  <2>3. \A b : \A q \in Peers : CanSend(q, b) => b \in Blocks
    BY DEF CanSend, Blocks
  <2> QED  BY <1>2, <2>1, <2>2, <2>3 DEF CanvasInv, AskInv, CanSend
<1>7. WebInv'
  BY <1>2 DEF CanvasInv, WebInv, OpenIsRegistered
<1> QED  BY <1>3, <1>4, <1>5, <1>6, <1>7 DEF CanvasInv

LEMMA CanvasAsk ==
  ASSUME CanvasInv, NEW p \in Peers, Ask(p)
  PROVE  CanvasInv'
<1> USE CanvasAssumption
<1>1. /\ arriving' \in [Peers -> Seq(Blocks \cup Events \cup {PeerAsks})]
      /\ \A q \in Peers : Elements(arriving[q]) \subseteq Elements(arriving'[q])
  <2>1. arriving[p] \in Seq(Blocks \cup Events \cup {PeerAsks})
    BY DEF CanvasInv, CanvasTypeOK
  <2>2. Append(arriving[p], PeerAsks) \in Seq(Blocks \cup Events \cup {PeerAsks})
    BY <2>1
  <2>3. Elements(Append(arriving[p], PeerAsks)) = Elements(arriving[p]) \cup {PeerAsks}
    BY <2>1, ElementsAre
  <2> QED  BY <2>2, <2>3 DEF CanvasInv, CanvasTypeOK, Ask
<1>2. CanvasTypeOK'
  BY <1>1 DEF CanvasInv, CanvasTypeOK, Ask, Fault, web
<1>3. LinkInv'
  BY DEF CanvasInv, LinkInv, Ask
<1>4. FetchInv'
  BY DEF CanvasInv, FetchInv, Ask
<1>5. AskInv'
  <2>1. \A b : \A q \in Peers : Owed(q, b) => Owed(q, b)'
    BY <1>1 DEF Owed, Ask
  <2>2. \A g \in Calls : call[g].asked \subseteq Peers
    BY DEF CanvasInv, CanvasTypeOK
  <2> QED  BY <2>1, <2>2 DEF CanvasInv, AskInv, CanSend, Ask
<1>6. WebInv'
  BY DEF CanvasInv, WebInv, OpenIsRegistered, Ask, web
<1> QED  BY <1>2, <1>3, <1>4, <1>5, <1>6 DEF CanvasInv

\* A request of the peer is no block, and the answer to it goes the other way.
LEMMA CanvasServe ==
  ASSUME CanvasInv, NEW p \in Peers, Serve(p)
  PROVE  CanvasInv'
<1> USE CanvasAssumption
<1>1. /\ arriving' \in [Peers -> Seq(Blocks \cup Events \cup {PeerAsks})]
      /\ \A q \in Peers : Elements(arriving[q]) \subseteq Elements(arriving'[q]) \cup {PeerAsks}
  <2>1. /\ arriving[p] \in Seq(Blocks \cup Events \cup {PeerAsks}) /\ arriving[p] # <<>>
        /\ Head(arriving[p]) = PeerAsks /\ arriving' = [arriving EXCEPT ![p] = Tail(arriving[p])]
    BY DEF CanvasInv, CanvasTypeOK, Serve
  <2>2. /\ Tail(arriving[p]) \in Seq(Blocks \cup Events \cup {PeerAsks})
        /\ Elements(arriving[p]) = {PeerAsks} \cup Elements(Tail(arriving[p]))
    BY <2>1, ElementsAre
  <2> QED  BY <2>1, <2>2 DEF CanvasInv, CanvasTypeOK
<1>2. /\ requests' \in [Peers -> Seq(Blocks \cup {OurBlock})]
      /\ \A q \in Peers : Elements(requests[q]) \subseteq Elements(requests'[q])
      /\ \A q \in Peers : requests'[q] # requests[q] => q \in connections \ closed
  <2>1. requests[p] \in Seq(Blocks \cup {OurBlock}) /\ p \in connections
    BY DEF CanvasInv, CanvasTypeOK, Serve
  <2>2. Append(requests[p], OurBlock) \in Seq(Blocks \cup {OurBlock})
    BY <2>1
  <2>3. Elements(Append(requests[p], OurBlock)) = Elements(requests[p]) \cup {OurBlock}
    BY <2>1, ElementsAre
  <2> QED  BY <2>1, <2>2, <2>3 DEF CanvasInv, CanvasTypeOK, Serve
<1>3. answering' \subseteq connections
  BY DEF CanvasInv, CanvasTypeOK, Serve
<1>4. UNCHANGED <<call, handlers, connections, closed, serving, store, relay, endpoint, client,
                  registered, faults>>
  BY DEF Serve, web
<1>5. CanvasTypeOK'
  BY <1>1, <1>2, <1>3, <1>4 DEF CanvasInv, CanvasTypeOK
<1>6. LinkInv'
  BY <1>2, <1>4 DEF CanvasInv, LinkInv
<1>7. FetchInv'
  BY <1>4 DEF CanvasInv, FetchInv
<1>8. AskInv'
  <2>1. \A q \in Peers, b \in Blocks : Owed(q, b) => Owed(q, b)'
    BY <1>1, <1>2, <1>4 DEF Owed
  <2>2. \A g \in Calls : call[g].asked \subseteq Peers
    BY DEF CanvasInv, CanvasTypeOK
  <2>3. \A b : \A q \in Peers : CanSend(q, b) => b \in Blocks
    BY DEF CanSend, Blocks
  <2> QED  BY <1>4, <2>1, <2>2, <2>3 DEF CanvasInv, AskInv, CanSend
<1>9. WebInv'
  BY <1>4 DEF CanvasInv, WebInv, OpenIsRegistered
<1> QED  BY <1>5, <1>6, <1>7, <1>8, <1>9 DEF CanvasInv

LEMMA CanvasServed ==
  ASSUME CanvasInv, NEW p \in Peers, Served(p)
  PROVE  CanvasInv'
<1>1. CanvasTypeOK'
  BY DEF CanvasInv, CanvasTypeOK, Served, web
<1>2. LinkInv'
  BY DEF CanvasInv, LinkInv, Served
<1>3. FetchInv'
  BY DEF CanvasInv, FetchInv, Served
<1>4. AskInv'
  BY DEF CanvasInv, AskInv, Owed, CanSend, Served
<1>5. WebInv'
  BY DEF CanvasInv, WebInv, OpenIsRegistered, Served, web
<1> QED  BY <1>1, <1>2, <1>3, <1>4, <1>5 DEF CanvasInv

\* An answer is taken by every call that waits for it.
LEMMA CanvasRespond ==
  ASSUME CanvasInv, NEW p \in Peers, Respond(p)
  PROVE  CanvasInv'
<1> USE CanvasAssumption
<1> DEFINE b == Head(arriving[p])
<1>1. /\ b \in Blocks /\ Tail(arriving[p]) \in Seq(Blocks \cup Events \cup {PeerAsks})
      /\ Elements(arriving[p]) = {b} \cup Elements(Tail(arriving[p]))
  <2>1. arriving[p] \in Seq(Blocks \cup Events \cup {PeerAsks}) /\ arriving[p] # <<>>
        /\ Head(arriving[p]) \notin Events \cup {PeerAsks}
    BY DEF CanvasInv, CanvasTypeOK, Respond
  <2> QED  BY <2>1, ElementsAre
<1>2. /\ \A g \in Calls : /\ call'[g].pc = call[g].pc /\ call'[g].cid = call[g].cid /\ call'[g].reply = call[g].reply
                          /\ call'[g].todo = call[g].todo /\ call'[g].asked = call[g].asked
                          /\ call'[g].future = IF g \in Takers(b) /\ b \notin EmptyBlocks THEN b ELSE call[g].future
      /\ call' \in [Calls -> Asks]
  <2>1. call \in [Calls -> Asks]
    BY DEF CanvasInv, CanvasTypeOK, Asks
  <2>2. call' = [f \in Calls |-> IF f \in Takers(b) /\ b \notin EmptyBlocks
                                THEN [call[f] EXCEPT !.future = b] ELSE call[f]]
    BY DEF Respond
  <2> HIDE DEF b
  <2>3. \A g \in Calls : call[g] \in Asks /\ [call[g] EXCEPT !.future = b] \in Asks
    BY <1>1, <2>1 DEF Asks
  <2> QED  BY <2>1, <2>2, <2>3 DEF Asks
<1>3. /\ arriving' \in [Peers -> Seq(Blocks \cup Events \cup {PeerAsks})] /\ arriving'[p] = Tail(arriving[p])
      /\ \A q \in Peers \ {p} : arriving'[q] = arriving[q]
      /\ UNCHANGED <<handlers, connections, closed, requests, serving, answering, store, relay, endpoint, client,
                     registered, faults>>
  BY <1>1 DEF CanvasInv, CanvasTypeOK, Respond, web
<1> HIDE DEF b
<1>4. CanvasTypeOK'
  BY <1>2, <1>3 DEF CanvasInv, CanvasTypeOK, Asks
<1>5. LinkInv'
  BY <1>3 DEF CanvasInv, LinkInv
<1>6. FetchInv'
  BY <1>2, <1>3 DEF CanvasInv, FetchInv, Takers
<1>7. AskInv'
  <2>1. \A x : \A q \in Peers : Owed(q, x) => x = b \/ Owed(q, x)'
    BY <1>1, <1>3 DEF Owed
  <2>2. \A g \in Calls : /\ call[g].asked \subseteq Peers
                         /\ call[g].pc = "asking" => g \in handlers
    BY DEF CanvasInv, CanvasTypeOK
  <2>3. \A g \in Calls : call[g].pc = "asking" /\ call[g].cid = b /\ b \notin EmptyBlocks => call'[g].future # None
    BY <1>1, <1>2, <2>2 DEF Takers
  <2>4. \A x : \A q \in Peers : CanSend(q, x) => x \notin EmptyBlocks
    BY DEF CanSend
  <2>5. \A g \in Calls : call'[g].future = None => call[g].future = None
    BY <1>1, <1>2
  <2> QED  BY <1>2, <1>3, <2>1, <2>2, <2>3, <2>4, <2>5 DEF CanvasInv, AskInv, CanSend
<1>8. WebInv'
  BY <1>3 DEF CanvasInv, WebInv, OpenIsRegistered
<1> QED  BY <1>4, <1>5, <1>6, <1>7, <1>8 DEF CanvasInv

LEMMA CanvasRelay ==
  ASSUME CanvasInv, NEW p \in Peers, Relay(p)
  PROVE  CanvasInv'
<1> USE CanvasAssumption
<1>1. /\ Head(arriving[p]) \in Events /\ Tail(arriving[p]) \in Seq(Blocks \cup Events \cup {PeerAsks})
      /\ Elements(arriving[p]) = {Head(arriving[p])} \cup Elements(Tail(arriving[p]))
  <2>1. arriving[p] \in Seq(Blocks \cup Events \cup {PeerAsks}) /\ arriving[p] # <<>> /\ Head(arriving[p]) \in Events
    BY DEF CanvasInv, CanvasTypeOK, Relay
  <2> QED  BY <2>1, ElementsAre
<1>2. /\ arriving' \in [Peers -> Seq(Blocks \cup Events \cup {PeerAsks})] /\ arriving'[p] = Tail(arriving[p])
      /\ \A q \in Peers \ {p} : arriving'[q] = arriving[q]
      /\ relay' = [relay EXCEPT ![p] = [todo |-> registered, dead |-> {}, on |-> TRUE]]
      /\ UNCHANGED <<call, handlers, connections, closed, requests, serving, answering, store, endpoint, client,
                     registered, faults>>
  BY <1>1 DEF CanvasInv, CanvasTypeOK, Relay
<1>3. CanvasTypeOK'
  BY <1>2 DEF CanvasInv, CanvasTypeOK
<1>4. LinkInv'
  BY <1>2 DEF CanvasInv, LinkInv
<1>5. FetchInv'
  BY <1>2 DEF CanvasInv, FetchInv
<1>6. AskInv'
  <2>1. \A q \in Peers, x \in Blocks : Owed(q, x) => Owed(q, x)'
    BY <1>1, <1>2 DEF Owed, Events
  <2>2. \A g \in Calls : call[g].asked \subseteq Peers
    BY DEF CanvasInv, CanvasTypeOK
  <2>3. \A x : \A q \in Peers : CanSend(q, x) => x \in Blocks
    BY DEF CanSend, Blocks
  <2> QED  BY <1>2, <2>1, <2>2, <2>3 DEF CanvasInv, AskInv, CanSend
<1>7. WebInv'
  BY <1>2 DEF CanvasInv, CanvasTypeOK, WebInv, OpenIsRegistered
<1> QED  BY <1>3, <1>4, <1>5, <1>6, <1>7 DEF CanvasInv

LEMMA CanvasRelayTo ==
  ASSUME CanvasInv, NEW p \in Peers, NEW c \in Clients, RelayTo(p, c)
  PROVE  CanvasInv'
<1> USE CanvasAssumption
<1>1. /\ \A q \in Peers \ {p} : relay'[q] = relay[q]
      /\ relay'[p].todo = relay[p].todo \ {c} /\ relay'[p].on = relay[p].on
      /\ relay'[p].dead = IF client[c] = "gone" THEN relay[p].dead \cup {c} ELSE relay[p].dead
      /\ relay' \in [Peers -> [todo : SUBSET Clients, dead : SUBSET Clients, on : BOOLEAN]]
  <2>1. relay \in [Peers -> [todo : SUBSET Clients, dead : SUBSET Clients, on : BOOLEAN]]
    BY DEF CanvasInv, CanvasTypeOK
  <2> QED  BY <2>1 DEF RelayTo
<1>2. UNCHANGED <<call, handlers, connections, closed, requests, serving, answering, arriving, store, endpoint, client,
                  registered, faults>>
  BY DEF RelayTo, mesh
<1>3. CanvasTypeOK'
  BY <1>1, <1>2 DEF CanvasInv, CanvasTypeOK
<1>4. LinkInv'
  BY <1>2 DEF CanvasInv, LinkInv
<1>5. FetchInv'
  BY <1>2 DEF CanvasInv, FetchInv
<1>6. AskInv'
  BY <1>2 DEF CanvasInv, AskInv, CanSend, Owed
<1>7. WebInv'
  BY <1>1, <1>2 DEF CanvasInv, WebInv, OpenIsRegistered
<1> QED  BY <1>3, <1>4, <1>5, <1>6, <1>7 DEF CanvasInv

LEMMA CanvasAdd ==
  ASSUME CanvasInv, NEW f \in Calls, Add(f)
  PROVE  CanvasInv'
<1> USE CanvasAssumption
<1>1. CanvasTypeOK'
  BY ElementsAre DEF CanvasInv, CanvasTypeOK, LinkInv, FetchInv, Replies, Cids, Recoded, Add, Waits, mesh, web
<1>2. LinkInv'
  BY DEF CanvasInv, CanvasTypeOK, LinkInv, AskInv, Add, Waits, mesh, web
<1>3. FetchInv'
  BY DEF CanvasInv, CanvasTypeOK, FetchInv, Recoded, Add, Waits, mesh, web
<1>4. AskInv'
  <2>1. call'[f].pc = "done" /\ \A g \in Calls \ {f} : call'[g] = call[g]
    BY DEF CanvasInv, CanvasTypeOK, Add
  <2>2. UNCHANGED <<connections, closed, requests, serving, answering, arriving>>
    BY DEF Add, mesh
  <2> QED  BY <2>1, <2>2 DEF CanvasInv, AskInv, Owed, CanSend
<1>5. WebInv'
  BY DEF CanvasInv, CanvasTypeOK, WebInv, OpenIsRegistered, Add, Waits, mesh, web
<1> QED  BY <1>1, <1>2, <1>3, <1>4, <1>5 DEF CanvasInv

LEMMA CanvasRelayOver ==
  ASSUME CanvasInv, NEW p \in Peers, RelayOver(p)
  PROVE  CanvasInv'
<1> USE CanvasAssumption
<1>1. CanvasTypeOK'
  BY ElementsAre DEF CanvasInv, CanvasTypeOK, LinkInv, FetchInv, Replies, Cids, Recoded,
     RelayOver, NoRelay, mesh, web
<1>2. LinkInv'
  BY DEF CanvasInv, CanvasTypeOK, LinkInv, AskInv, RelayOver, NoRelay, mesh, web
<1>3. FetchInv'
  BY DEF CanvasInv, CanvasTypeOK, FetchInv, Recoded, RelayOver, NoRelay, mesh, web
<1>4. AskInv'
  BY ElementsAre DEF CanvasInv, CanvasTypeOK, AskInv, LinkInv, FetchInv, Owed, CanSend,
     RelayOver, NoRelay, mesh, web
<1>5. WebInv'
  BY DEF CanvasInv, CanvasTypeOK, WebInv, OpenIsRegistered, RelayOver, NoRelay, mesh, web
<1> QED  BY <1>1, <1>2, <1>3, <1>4, <1>5 DEF CanvasInv

LEMMA CanvasOpen ==
  ASSUME CanvasInv, NEW c \in Clients, Open(c)
  PROVE  CanvasInv'
<1> USE CanvasAssumption
<1>1. CanvasTypeOK'
  BY ElementsAre DEF CanvasInv, CanvasTypeOK, LinkInv, FetchInv, Replies, Cids, Recoded, Open, mesh, web
<1>2. LinkInv'
  BY DEF CanvasInv, CanvasTypeOK, LinkInv, AskInv, Open, mesh, web
<1>3. FetchInv'
  BY DEF CanvasInv, CanvasTypeOK, FetchInv, Recoded, Open, mesh, web
<1>4. AskInv'
  BY ElementsAre DEF CanvasInv, CanvasTypeOK, AskInv, LinkInv, FetchInv, Owed, CanSend, Open, mesh, web
<1>5. WebInv'
  BY DEF CanvasInv, CanvasTypeOK, WebInv, OpenIsRegistered, Open, mesh, web
<1> QED  BY <1>1, <1>2, <1>3, <1>4, <1>5 DEF CanvasInv

LEMMA CanvasReadEnds ==
  ASSUME CanvasInv, NEW c \in Clients, ReadEnds(c)
  PROVE  CanvasInv'
<1> USE CanvasAssumption
<1>1. CanvasTypeOK'
  BY ElementsAre DEF CanvasInv, CanvasTypeOK, LinkInv, FetchInv, Replies, Cids, Recoded, ReadEnds, mesh, web
<1>2. LinkInv'
  BY DEF CanvasInv, CanvasTypeOK, LinkInv, AskInv, ReadEnds, mesh, web
<1>3. FetchInv'
  BY DEF CanvasInv, CanvasTypeOK, FetchInv, Recoded, ReadEnds, mesh, web
<1>4. AskInv'
  BY ElementsAre DEF CanvasInv, CanvasTypeOK, AskInv, LinkInv, FetchInv, Owed, CanSend, ReadEnds, mesh, web
<1>5. WebInv'
  BY DEF CanvasInv, CanvasTypeOK, WebInv, OpenIsRegistered, ReadEnds, mesh, web
<1> QED  BY <1>1, <1>2, <1>3, <1>4, <1>5 DEF CanvasInv

LEMMA CanvasLeave ==
  ASSUME CanvasInv, NEW c \in Clients, Leave(c)
  PROVE  CanvasInv'
<1> USE CanvasAssumption
<1>1. CanvasTypeOK'
  BY ElementsAre DEF CanvasInv, CanvasTypeOK, LinkInv, FetchInv, Replies, Cids, Recoded, Leave, mesh, web
<1>2. LinkInv'
  BY DEF CanvasInv, CanvasTypeOK, LinkInv, AskInv, Leave, mesh, web
<1>3. FetchInv'
  BY DEF CanvasInv, CanvasTypeOK, FetchInv, Recoded, Leave, mesh, web
<1>4. AskInv'
  BY ElementsAre DEF CanvasInv, CanvasTypeOK, AskInv, LinkInv, FetchInv, Owed, CanSend, Leave, mesh, web
<1>5. WebInv'
  BY DEF CanvasInv, CanvasTypeOK, WebInv, OpenIsRegistered, Leave, mesh, web
<1> QED  BY <1>1, <1>2, <1>3, <1>4, <1>5 DEF CanvasInv

LEMMA CanvasStall ==
  ASSUME CanvasInv, NEW c \in Clients, Stall(c)
  PROVE  CanvasInv'
<1> USE CanvasAssumption
<1>1. CanvasTypeOK'
  BY ElementsAre DEF CanvasInv, CanvasTypeOK, LinkInv, FetchInv, Replies, Cids, Recoded, Stall,
     Fault, mesh, web
<1>2. LinkInv'
  BY DEF CanvasInv, CanvasTypeOK, LinkInv, AskInv, Stall, Fault, mesh, web
<1>3. FetchInv'
  BY DEF CanvasInv, CanvasTypeOK, FetchInv, Recoded, Stall, Fault, mesh, web
<1>4. AskInv'
  BY ElementsAre DEF CanvasInv, CanvasTypeOK, AskInv, LinkInv, FetchInv, Owed, CanSend, Stall,
     Fault, mesh, web
<1>5. WebInv'
  BY DEF CanvasInv, CanvasTypeOK, WebInv, OpenIsRegistered, Stall, Fault, mesh, web
<1> QED  BY <1>1, <1>2, <1>3, <1>4, <1>5 DEF CanvasInv

LEMMA CanvasResume ==
  ASSUME CanvasInv, NEW c \in Clients, Resume(c)
  PROVE  CanvasInv'
<1> USE CanvasAssumption
<1>1. CanvasTypeOK'
  BY ElementsAre DEF CanvasInv, CanvasTypeOK, LinkInv, FetchInv, Replies, Cids, Recoded, Resume, mesh, web
<1>2. LinkInv'
  BY DEF CanvasInv, CanvasTypeOK, LinkInv, AskInv, Resume, mesh, web
<1>3. FetchInv'
  BY DEF CanvasInv, CanvasTypeOK, FetchInv, Recoded, Resume, mesh, web
<1>4. AskInv'
  BY ElementsAre DEF CanvasInv, CanvasTypeOK, AskInv, LinkInv, FetchInv, Owed, CanSend, Resume, mesh, web
<1>5. WebInv'
  BY DEF CanvasInv, CanvasTypeOK, WebInv, OpenIsRegistered, Resume, mesh, web
<1> QED  BY <1>1, <1>2, <1>3, <1>4, <1>5 DEF CanvasInv

-----------------------------------------------------------------------------
LEMMA CanvasStart == CanvasInit => CanvasInv
<1> USE CanvasAssumption
<1> SUFFICES ASSUME CanvasInit  PROVE CanvasInv
  OBVIOUS
<1>1. CanvasTypeOK
  <2>1. /\ call = [f \in Calls |-> [pc |-> "idle", cid |-> None, todo |-> {}, draining |-> {}, asked |-> {},
                                future |-> None, reply |-> None]]
        /\ None \in Replies
    BY DEF CanvasInit, Replies
  <2>2. call \in [Calls -> Asks] /\ \A f \in Calls : call[f].pc # "asking"
    BY <2>1 DEF Asks
  <2>3. relay \in [Peers -> [todo : SUBSET Clients, dead : SUBSET Clients, on : BOOLEAN]]
    BY DEF CanvasInit, NoRelay
  <2>4. /\ requests \in [Peers -> Seq(Blocks \cup {OurBlock})] /\ arriving \in [Peers -> Seq(Blocks \cup Events \cup {PeerAsks})]
        /\ serving \in [Peers -> Blocks \cup {None, Sending}]
    BY DEF CanvasInit
  <2> QED  BY <2>2, <2>3, <2>4 DEF CanvasInit, CanvasTypeOK, Asks
<1>2. LinkInv
  BY DEF CanvasInit, LinkInv
<1>3. FetchInv
  BY DEF CanvasInit, FetchInv
<1>4. AskInv
  BY DEF CanvasInit, AskInv
<1>5. WebInv
  BY DEF CanvasInit, WebInv, OpenIsRegistered, NoRelay
<1> QED  BY <1>1, <1>2, <1>3, <1>4, <1>5 DEF CanvasInv

LEMMA CanvasStep == CanvasInv /\ [CanvasNext]_canvasVars => CanvasInv'
<1> SUFFICES ASSUME CanvasInv, [CanvasNext]_canvasVars  PROVE CanvasInv'
  OBVIOUS
<1>1. ASSUME NEW f \in Calls, CallStep(f) \/ AddFails(f) \/ \E b \in Blocks : Call(f, b)
      PROVE  CanvasInv'
  <2>1. CASE \E b \in Blocks : Call(f, b)
    BY <1>1, <2>1, CanvasCall
  <2>2. CASE \E p \in Peers : Send(f, p) \/ Drained(f, p)
    BY <1>1, <2>2, CanvasSend, CanvasDrained
  <2>3. CASE Add(f)
    BY <1>1, <2>3, CanvasAdd
  <2>4. CASE AddFails(f) \/ TimeOut(f)
    BY <1>1, <2>4, CanvasEnds
  <2> QED  BY <1>1, <2>1, <2>2, <2>3, <2>4 DEF CallStep
<1>2. ASSUME NEW p \in Peers, Loop(p)  PROVE CanvasInv'
  <2>1. CASE Notice(p)
    BY <1>2, <2>1, CanvasNotice
  <2>2. CASE Respond(p)
    BY <1>2, <2>2, CanvasRespond
  <2>3. CASE Relay(p)
    BY <1>2, <2>3, CanvasRelay
  <2>4. CASE RelayOver(p)
    BY <1>2, <2>4, CanvasRelayOver
  <2>5. CASE \E c \in Clients : RelayTo(p, c)
    BY <1>2, <2>5, CanvasRelayTo
  <2>6. CASE Serve(p) \/ Served(p)
    BY <1>2, <2>6, CanvasServe, CanvasServed
  <2> QED  BY <1>2, <2>1, <2>2, <2>3, <2>4, <2>5, <2>6 DEF Loop
<1>3. ASSUME NEW p \in Peers, Connect(p) \/ Announce(p) \/ Lose(p) \/ PeerLoop(p) \/ Ask(p)
      PROVE  CanvasInv'
  BY <1>3, CanvasConnect, CanvasAnnounce, CanvasLose, CanvasTake, CanvasAnswer, CanvasAnswered, CanvasAsk
     DEF PeerLoop
<1>4. ASSUME NEW c \in Clients, Open(c) \/ ReadEnds(c) \/ Leave(c) \/ Stall(c) \/ Resume(c)
      PROVE  CanvasInv'
  BY <1>4, CanvasOpen, CanvasReadEnds, CanvasLeave, CanvasStall, CanvasResume
<1>5. CASE UNCHANGED canvasVars
  BY <1>5 DEF canvasVars, CanvasInv, CanvasTypeOK, LinkInv, FetchInv, AskInv, Owed, CanSend,
     WebInv, OpenIsRegistered
<1> QED  BY <1>1, <1>2, <1>3, <1>4, <1>5 DEF CanvasNext

LEMMA CanvasInvariant == CanvasSpec => []CanvasInv
<1> QED  BY CanvasStart, CanvasStep, PTL DEF CanvasSpec

(* The variables of CanvasApi keep their types: a call that waits has its    *)
(* handler registered, and what has been closed was connected.               *)
THEOREM CanvasTyped == CanvasSpec => []CanvasTypeOK
<1>1. CanvasInv => CanvasTypeOK
  BY DEF CanvasInv
<1> QED  BY <1>1, CanvasInvariant, PTL

(* For any number of calls and peers, whichever handlers see an answer: a    *)
(* call returns the block it asked for, which has been added to the store.   *)
THEOREM FetchesItsOwn == CanvasSpec => []FetchedIsOwn
<1>1. CanvasInv => FetchedIsOwn
  BY DEF CanvasInv, FetchInv, FetchedIsOwn
<1> QED  BY <1>1, CanvasInvariant, PTL

(* However many broadcasts are under way while clients come, go and stall:   *)
(* a client that is connected and whose endpoint runs is in the list.        *)
THEOREM ClientsStayRegistered == CanvasSpec => []OpenIsRegistered
<1>1. CanvasInv => OpenIsRegistered
  BY DEF CanvasInv, WebInv
<1> QED  BY <1>1, CanvasInvariant, PTL

\* A call that waits is ended only by its own steps.
LEMMA EndsItself ==
  ASSUME CanvasInv, [CanvasNext]_canvasVars, NEW f \in Calls, Waits(f), call'[f].reply # call[f].reply
  PROVE  Add(f) \/ AddFails(f) \/ TimeOut(f)
<1>1. call \in [Calls -> Asks] /\ call[f].pc = "asking" /\ call[f].todo = {} /\ call[f].draining = {}
  BY DEF CanvasInv, CanvasTypeOK, Asks, Waits
<1>2. ASSUME NEW g \in Calls \ {f}, CallStep(g) \/ AddFails(g) \/ \E b \in Blocks : Call(g, b)
      PROVE  call'[f] = call[f]
  BY <1>1, <1>2 DEF CallStep, Add, AddFails, TimeOut, Send, Drained, Call
<1>3. ~\E b \in Blocks : Call(f, b)
  BY <1>1 DEF Call
<1>4. ~\E p \in Peers : Send(f, p) \/ Drained(f, p)
  BY <1>1 DEF Send, Drained
<1>5. ASSUME NEW p \in Peers, Loop(p) \/ Connect(p) \/ Announce(p) \/ Lose(p) \/ PeerLoop(p) \/ Ask(p)
      PROVE  call'[f].reply = call[f].reply
  <2>1. CASE Close(p)
    BY <1>1, <2>1 DEF Close, Asks
  <2>2. CASE Notice(p)
    BY <1>1, <2>2 DEF Notice, Asks
  <2>3. CASE Respond(p)
    BY <1>1, <2>3 DEF Respond, Asks
  <2>4. CASE call' = call
    BY <2>4
  <2> QED  BY <1>5, <2>1, <2>2, <2>3, <2>4 
     DEF Loop, Relay, RelayOver, RelayTo, Serve, Served, Connect, Announce, Lose, PeerLoop, Take, Answer,
         Answered, Ask
<1>6. ASSUME NEW c \in Clients, Open(c) \/ ReadEnds(c) \/ Leave(c) \/ Stall(c) \/ Resume(c)
      PROVE  call' = call
  BY <1>6 DEF Open, ReadEnds, Leave, Stall, Resume
<1>7. CASE UNCHANGED canvasVars
  BY <1>7 DEF canvasVars
<1>8. \A g \in Calls : g = f \/ g \in Calls \ {f}
  OBVIOUS
<1> QED  BY <1>2, <1>3, <1>4, <1>5, <1>6, <1>7, <1>8 DEF CanvasNext, CallStep

(* For any number of calls and peers: a call that is not hurried gives up    *)
(* only when no peer that it asked, and that is still connected, can send    *)
(* the block, unless the two nodes wait for each other to read. What such a  *)
(* peer owes is on its way (AskInv), so the time limit is not reached before *)
(* it comes.                                                                 *)
THEOREM NoAnswerMissed == CanvasSpec => NobodyHadIt
<1>1. ASSUME CanvasInv, [CanvasNext]_canvasVars, NEW f \in Calls, Waits(f),
             call'[f].reply = NotFound, faults' = faults
      PROVE  \A p \in call[f].asked : CanSend(p, call[f].cid) => Crossed(p)
  <2>1. call \in [Calls -> Asks] /\ call[f].pc = "asking" /\ call[f].reply = None
    BY <1>1 DEF CanvasInv, CanvasTypeOK, FetchInv, Asks, Waits
  <2>2. Add(f) \/ AddFails(f) \/ TimeOut(f)
    BY <1>1, <2>1, CanvasAssumption, EndsItself
  <2>3. ~Add(f)
    BY <1>1, <2>1, CanvasAssumption DEF Add, Asks
  <2>4. ~AddFails(f) /\ ~Fault
    <3>1. faults \in Nat
      BY <1>1, CanvasAssumption DEF CanvasInv, CanvasTypeOK
    <3> QED  BY <1>1, <3>1 DEF AddFails, Fault
  <2>5. call[f].future = None /\ ~Coming(f)
    BY <2>2, <2>3, <2>4 DEF TimeOut
  <2> SUFFICES ASSUME NEW p \in call[f].asked, CanSend(p, call[f].cid), ~Crossed(p)  PROVE FALSE
    OBVIOUS
  <2>6. p \in connections /\ p \notin closed /\ Owed(p, call[f].cid)
    BY <1>1, <2>1, <2>5 DEF CanvasInv, AskInv
  <2> QED  BY <2>5, <2>6 DEF Coming, Owed
<1>2. CanvasInv /\ [CanvasNext]_canvasVars =>
        \A f \in Calls : Waits(f) /\ call'[f].reply = NotFound /\ faults' = faults =>
          \A p \in call[f].asked : CanSend(p, call[f].cid) => Crossed(p)
  BY <1>1
<1> QED  BY <1>2, CanvasInvariant, PTL DEF CanvasSpec, NobodyHadIt
================================================================================
