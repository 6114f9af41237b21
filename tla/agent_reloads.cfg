SPECIFICATION Spec
CONSTANTS
  f1 = f1
  f2 = f2
  a = a
  r1 = r1
  r2 = r2
  c1 = c1
  Boot = Boot
  None = None
  Broadcast = Broadcast
  Wildcard = Wildcard
  Files = {f1, f2}
  Names = {a}
  Topics = {a, Broadcast, Wildcard}
  TopicsOf <- Capable
  Classes <- Shared
  MaxTime = 2
  Reloads = {r1, r2}
  Calls = {c1}
INVARIANTS BusyIsWorked WiredWasStarted LoadedIsWired
PROPERTIES StoppedIsFinal
CHECK_DEADLOCK FALSE
