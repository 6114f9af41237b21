----------------------------- MODULE ContentStore -----------------------------
(***************************************************************************)
(* What the content store of a node promises, with every operation atomic  *)
(* but garbage collection: a collection decides at one instant which       *)
(* blocks it may discard, those not pinned then, and discards them one by  *)
(* one, in any order, while other calls go on.  Nothing else removes a     *)
(* block.  Which pins a crash preserves is not promised here (see          *)
(* PinsPersisted in IpfsStore).                                            *)
(***************************************************************************)
CONSTANTS Collectors, Blocks

VARIABLES
  stored,       \* blocks that can be retrieved
  pinned,       \* CIDs protected from collections that start now
  doomed        \* what the collection each collector runs may discard

vars == <<stored, pinned, doomed>>

TypeOK ==
  /\ stored \subseteq Blocks
  /\ pinned \subseteq Blocks
  /\ doomed \in [Collectors -> SUBSET Blocks]

Init ==
  /\ stored = {} /\ pinned = {}
  /\ doomed = [c \in Collectors |-> {}]

Put(b) ==
  /\ stored' = stored \cup {b}
  /\ UNCHANGED <<pinned, doomed>>

Pin(b) ==
  /\ pinned' = pinned \cup {b}
  /\ UNCHANGED <<stored, doomed>>

Unpin(b) ==
  /\ pinned' = pinned \ {b}
  /\ UNCHANGED <<stored, doomed>>

BeginCollection(c) ==
  /\ doomed' = [doomed EXCEPT ![c] = Blocks \ pinned]
  /\ UNCHANGED <<stored, pinned>>

Discard(c, b) ==
  /\ b \in doomed[c]
  /\ stored' = stored \ {b}
  /\ UNCHANGED <<pinned, doomed>>

EndCollection(c) ==
  /\ doomed' = [doomed EXCEPT ![c] = {}]
  /\ UNCHANGED <<stored, pinned>>

\* A new process: the block files are there, collections are not resumed.
Reopen ==
  /\ pinned' \in SUBSET Blocks
  /\ doomed' = [c \in Collectors |-> {}]
  /\ UNCHANGED stored

Next ==
  \/ \E b \in Blocks : Put(b) \/ Pin(b) \/ Unpin(b)
  \/ \E c \in Collectors : BeginCollection(c) \/ EndCollection(c)
  \/ \E c \in Collectors, b \in Blocks : Discard(c, b)
  \/ Reopen

Spec == Init /\ [][Next]_vars

=============================================================================
